---------------------------- MODULE Spec2Model ----------------------------
(***************************************************************************)
(* AI Crop Doctor (Expo client): the crop image resolver of                *)
(* frontend/utils/cropImages.ts, the local detection cache and the         *)
(* preferences of utils/offlineStorage.ts (OfflineStorage), and the home,  *)
(* analysis, weather and history screens of frontend/app.                  *)
(*                                                                         *)
(* Each component is checked under its own specification: SpecResolver,    *)
(* SpecClear (resolver with clearImageCache), SpecDetections, SpecAdders   *)
(* (interleaved addCachedDetection calls), SpecSettings (preferences on    *)
(* the home screen), SpecScreens (the pick flow and the three screens it   *)
(* opens), SpecWeather (the weather screen, with the fairness of its       *)
(* awaited steps), SpecAnalysis (the analysis screen opened with any       *)
(* route parameters), SpecStorage (OfflineStorage.clearAll and the         *)
(* advisories), SpecColours (the confidence colour of the two screens)     *)
(* and SpecPreload (preloadCropImages, its calls interleaved).             *)
(***************************************************************************)
EXTENDS Integers, Sequences, FiniteSets

VARIABLES
    cache,              \* AsyncStorage item under crop_image_<crop>, per crop
    now,                \* Date.now(), in milliseconds
    pexelsConfigured,   \* PEXELS_KEY differs from its placeholder
    unsplashConfigured, \* UNSPLASH_KEY differs from its placeholder
    pc,                 \* position of the getCropImage call in flight
    call,               \* the getCropImage call in flight or last completed
    prevCall,           \* the getCropImage call before it
    calls,              \* number of getCropImage calls started
    ticks,              \* number of clock advances
    detections,         \* AsyncStorage item @crop_doctor:cached_detections
    lastAdd,            \* the last addCachedDetection call
    listed,             \* what the last getCachedDetections call returned
    nextSeq,            \* recording order of the next detection
    adds,               \* number of addCachedDetection calls
    adder,              \* the addCachedDetection calls that run interleaved
    prefs,              \* AsyncStorage items @crop_doctor:language, :offline_mode
    advisory,           \* AsyncStorage items @crop_doctor:offline_advisory:<crop>
    config,             \* EXPO_PUBLIC_BACKEND_URL as the bundle sees it, Platform.OS
    route,              \* the screen on top of the navigation stack
    home,               \* state of the Index screen (app/index.tsx)
    analysis,           \* state of the Analysis screen
    weather,            \* state of the Weather screen
    history,            \* state of the History screen
    lastClear,          \* the last clearImageCache call
    lastClearAll,       \* the last OfflineStorage.clearAll call
    preload,            \* the preloadCropImages call and its getCropImage calls
    colours             \* a confidence score as the two screens colour it

resolverVars == <<cache, now, pexelsConfigured, unsplashConfigured, pc, call,
                  prevCall, calls, ticks>>
detectionVars == <<detections, lastAdd, listed, nextSeq, adds>>
screenVars == <<prefs, advisory, config, route, home, analysis, weather,
                history>>
otherVars == <<lastClearAll, preload, colours>>
appVars == <<adder, screenVars, lastClear, otherVars>>
vars == <<cache, now, pexelsConfigured, unsplashConfigured, pc, call,
          prevCall, calls, ticks, detections, lastAdd, listed, nextSeq, adds,
          adder, prefs, advisory, config, route, home, analysis, weather,
          history, lastClear, lastClearAll, preload, colours>>

---------------------------------------------------------------------------
(* Bounds of the model *)

MaxCalls == 2
MaxTicks == 1
MaxAdds == 3

---------------------------------------------------------------------------
(* Crop image resolver: values *)

Crops == {"Rice", "Maize"}

CACHE_EXPIRY_DAYS == 7

\* expiryTime of isCacheValid, in milliseconds
ExpiryTime == CACHE_EXPIRY_DAYS * 24 * 60 * 60 * 1000

\* TLC's integers are 32 bits wide: the clock stays below 2^31
MaxClock == 3 * ExpiryTime

PexelsUrls == {"https://pexels/a", "https://pexels/b"}
UnsplashUrls == {"https://unsplash/a"}
Urls == PexelsUrls \cup UnsplashUrls

Null == "<null>"
Unset == "<unset>"

\* Truthiness that takes the empty string for a value
TruthyIfNotNull(v) == v # Null

\* JavaScript truthiness of a string-or-null value
Truthy(v) == v # "" /\ v # Null

\* What AsyncStorage holds under a crop's key
NoEntry == [kind |-> "none"]
Unparseable == [kind |-> "unparseable"]
Entry(u, t) == [kind |-> "entry", url |-> u, timestamp |-> t]

\* A function's outcome: a returned value or a thrown exception
Return(v) == [threw |-> FALSE, value |-> v]
Throw == [threw |-> TRUE, value |-> Null]

\* What a provider answers to one search request
ProviderFailures == {"http_error", "network_error", "bad_payload", "no_photo"}
PexelsOutcomes == [kind : {"ok"}, url : PexelsUrls]
                    \cup [kind : ProviderFailures, url : {""}]
UnsplashOutcomes == [kind : {"ok"}, url : UnsplashUrls]
                    \cup [kind : ProviderFailures, url : {""}]
NoOutcome == [kind |-> "none", url |-> ""]

\* The components that a specification leaves alone
NoClearAll == [performed |-> FALSE, removeFails |-> FALSE, turn |-> 0]
NoPreload == [pc |-> "idle", crops |-> {}]
NoColours == [shown |-> FALSE, score |-> [number |-> FALSE, value |-> 0],
              analysis |-> "", history |-> ""]

OthersIdle ==
    /\ lastClearAll = NoClearAll
    /\ preload = NoPreload
    /\ colours = NoColours

---------------------------------------------------------------------------
(* Crop image resolver: the functions of cropImages.ts *)

\* isCacheValid with the bound made inclusive
IsCacheValidInclusive(timestamp, t) == t - timestamp <= ExpiryTime

\* isCacheValid with the expiry time computed in seconds
IsCacheValidSeconds(timestamp, t) ==
    t - timestamp < CACHE_EXPIRY_DAYS * 24 * 60 * 60

IsCacheValid(timestamp, t) == t - timestamp < ExpiryTime

\* getCachedImageUrl rewriting the timestamp of the entry it serves
GetCachedImageUrlTryRefreshes(entry, t, readFails, removeFails) ==
    IF readFails THEN [out |-> Throw, entry |-> entry]
    ELSE IF entry.kind = "none" THEN [out |-> Return(Null), entry |-> entry]
    ELSE IF entry.kind = "unparseable" THEN [out |-> Throw, entry |-> entry]
    ELSE IF IsCacheValid(entry.timestamp, t)
         THEN [out |-> Return(entry.url), entry |-> Entry(entry.url, t)]
    ELSE IF removeFails THEN [out |-> Throw, entry |-> entry]
    ELSE [out |-> Return(Null), entry |-> NoEntry]

\* The try block of getCachedImageUrl: the outcome and the stored item after
\* it. readFails: getItem rejects; removeFails: removeItem rejects.
GetCachedImageUrlTry(entry, t, readFails, removeFails) ==
    IF readFails THEN [out |-> Throw, entry |-> entry]
    ELSE IF entry.kind = "none" THEN [out |-> Return(Null), entry |-> entry]
    ELSE IF entry.kind = "unparseable" THEN [out |-> Throw, entry |-> entry]
    ELSE IF IsCacheValid(entry.timestamp, t)
         THEN [out |-> Return(entry.url), entry |-> entry]
    ELSE IF removeFails THEN [out |-> Throw, entry |-> entry]
    ELSE [out |-> Return(Null), entry |-> NoEntry]

\* getCachedImageUrl without its catch block
GetCachedImageUrlCatchRethrows(out) == out

\* The catch block of getCachedImageUrl
GetCachedImageUrlCatch(out) == IF out.threw THEN Return(Null) ELSE out

GetCachedImageUrl(entry, t, readFails, removeFails) ==
    LET r == GetCachedImageUrlTry(entry, t, readFails, removeFails)
    IN  [out |-> GetCachedImageUrlCatch(r.out), entry |-> r.entry]

\* cacheImageUrl storing the timestamp in seconds
CacheImageUrlTrySeconds(entry, url, t, writeFails) ==
    IF writeFails THEN [out |-> Throw, entry |-> entry]
    ELSE [out |-> Return(Null), entry |-> Entry(url, t \div 1000)]

\* The try block of cacheImageUrl. writeFails: setItem rejects.
CacheImageUrlTry(entry, url, t, writeFails) ==
    IF writeFails THEN [out |-> Throw, entry |-> entry]
    ELSE [out |-> Return(Null), entry |-> Entry(url, t)]

\* cacheImageUrl without its catch block
CacheImageUrlCatchRethrows(out) == out

\* The catch block of cacheImageUrl
CacheImageUrlCatch(out) == IF out.threw THEN Return(Null) ELSE out

CacheImageUrl(entry, url, t, writeFails) ==
    LET r == CacheImageUrlTry(entry, url, t, writeFails)
    IN  [out |-> CacheImageUrlCatch(r.out), entry |-> r.entry]

\* fetch, the response.ok test, response.json() and the extraction of the
\* first photo's URL: the imageUrl, or an exception
ProviderImageUrl(outcome) ==
    CASE outcome.kind = "ok" -> Return(outcome.url)
      [] outcome.kind = "no_photo" -> Return("")
      [] OTHER -> Throw

\* The provider functions without their catch blocks
PexelsCatchRethrows(out) == out
UnsplashCatchRethrows(out) == out

\* The catch blocks of the two provider functions
PexelsCatch(out) == IF out.threw THEN Return("") ELSE out
UnsplashCatch(out) == IF out.threw THEN Return("") ELSE out

\* getCropImage has no try block of its own
StageCatch(stage, out) ==
    CASE stage = "pexels" -> PexelsCatch(out)
      [] stage = "unsplash" -> UnsplashCatch(out)
      [] OTHER -> out

\* The provider functions without the placeholder test of their key
KeyCheckMissing(stage) == TRUE

KeyConfigured(stage) ==
    CASE stage = "pexels" -> pexelsConfigured
      [] stage = "unsplash" -> unsplashConfigured
      [] OTHER -> FALSE

Outcomes(stage) == IF stage = "pexels" THEN PexelsOutcomes ELSE UnsplashOutcomes

---------------------------------------------------------------------------
(* Crop image resolver: one getCropImage call *)

IdleCall ==
    [crop |-> "", stage |-> "cache", stages |-> <<>>, requests |-> <<>>,
     cacheAtStart |-> [c \in Crops |-> NoEntry],
     firstLookup |-> [performed |-> FALSE, readFails |-> FALSE, time |-> 0,
                      entry |-> NoEntry],
     pexels |-> NoOutcome, unsplash |-> NoOutcome,
     cachedUrl |-> Unset, pexelsUrl |-> Unset, unsplashUrl |-> Unset,
     url |-> "", writes |-> 0, writeFailed |-> FALSE, wroteAt |-> 0,
     entryBeforeWrite |-> NoEntry,
     result |-> Unset, source |-> "none"]

\* What the next call keeps of the call before it
IdleSummary ==
    [crop |-> "", result |-> Unset, source |-> "none",
     writeFailed |-> FALSE, wroteAt |-> 0]

Summary(k) ==
    [crop |-> k.crop, result |-> k.result, source |-> k.source,
     writeFailed |-> k.writeFailed, wroteAt |-> k.wroteAt]

NewCall(c) ==
    [IdleCall EXCEPT !.crop = c, !.stages = <<"cache">>,
                     !.cacheAtStart = cache]

\* The value a step of getCropImage returned, noted on the call
NoteStage(k, v) ==
    CASE k.stage = "cache" -> [k EXCEPT !.cachedUrl = v]
      [] k.stage = "pexels" -> [k EXCEPT !.pexelsUrl = v]
      [] k.stage = "unsplash" -> [k EXCEPT !.unsplashUrl = v]

\* getCropImage going on to the providers after a cache hit
NextStepIgnoresCacheHit(stage, value) ==
    CASE stage = "cache" -> "pexels"
      [] Truthy(value) -> "return"
      [] stage = "pexels" -> "unsplash"
      [] OTHER -> "return_empty"

\* The body of getCropImage: what follows the step `stage` that returned
\* `value`: `if (url) return url`, else the next step, else `return ''`
NextStep(stage, value) ==
    IF Truthy(value) THEN "return"
    ELSE CASE stage = "cache" -> "pexels"
           [] stage = "pexels" -> "unsplash"
           [] OTHER -> "return_empty"

\* getCropImage after the step k.stage produced `out` (from `src`)
Continue(k, out, src) ==
    LET o == StageCatch(k.stage, out)
        n == NoteStage(k, o.value)
        next == NextStep(k.stage, o.value)
    IN  IF o.threw
        THEN /\ pc' = "threw"
             /\ call' = n
        ELSE IF next = "return"
        THEN /\ pc' = "done"
             /\ call' = [n EXCEPT !.result = o.value, !.source = src]
        ELSE IF next = "return_empty"
        THEN /\ pc' = "done"
             /\ call' = [n EXCEPT !.result = "", !.source = "none"]
        ELSE /\ pc' = "lookup"
             /\ call' = [n EXCEPT !.stage = next, !.stages = Append(@, next)]

\* getCropImage(c) is called: it awaits getCachedImageUrl(c)
Call(c) ==
    /\ pc \in {"idle", "done"}
    /\ calls < MaxCalls
    /\ pc' = "lookup"
    /\ prevCall' = Summary(call)
    /\ call' = NewCall(c)
    /\ calls' = calls + 1
    /\ UNCHANGED <<cache, now, pexelsConfigured, unsplashConfigured, ticks>>
    /\ UNCHANGED detectionVars
    /\ UNCHANGED appVars

\* getCachedImageUrl completes: in getCropImage itself, or as the first
\* statement of a provider function, which then tests its key
CacheLookup(readFails, removeFails) ==
    /\ pc = "lookup"
    /\ LET r == GetCachedImageUrl(cache[call.crop], now, readFails, removeFails)
           k == IF call.stage = "cache"
                THEN [call EXCEPT !.firstLookup =
                        [performed |-> TRUE, readFails |-> readFails,
                         time |-> now, entry |-> cache[call.crop]]]
                ELSE call
       IN  /\ cache' = [cache EXCEPT ![call.crop] = r.entry]
           /\ IF r.out.threw \/ Truthy(r.out.value) \/ call.stage = "cache"
              THEN Continue(k, r.out, "cache")
              ELSE IF ~KeyConfigured(call.stage)
              THEN Continue(k, Return(""), "none")
              ELSE /\ pc' = "fetch"
                   /\ call' = k
    /\ UNCHANGED <<now, pexelsConfigured, unsplashConfigured, prevCall,
                   calls, ticks>>
    /\ UNCHANGED detectionVars
    /\ UNCHANGED appVars

\* The provider's search request is sent and answered
Fetch(outcome) ==
    /\ pc = "fetch"
    /\ outcome \in Outcomes(call.stage)
    /\ LET k == [call EXCEPT
                   !.requests = Append(@, call.stage),
                   !.pexels = IF call.stage = "pexels" THEN outcome ELSE @,
                   !.unsplash = IF call.stage = "unsplash" THEN outcome ELSE @]
           r == ProviderImageUrl(outcome)
       IN  IF ~r.threw /\ Truthy(r.value)
           THEN /\ pc' = "store"
                /\ call' = [k EXCEPT !.url = r.value]
           ELSE Continue(k, r, "none")
    /\ UNCHANGED <<cache, now, pexelsConfigured, unsplashConfigured, prevCall,
                   calls, ticks>>
    /\ UNCHANGED detectionVars
    /\ UNCHANGED appVars

\* cacheImageUrl(crop, imageUrl) completes and the provider function returns
Store(writeFails) ==
    /\ pc = "store"
    /\ LET r == CacheImageUrl(cache[call.crop], call.url, now, writeFails)
           k == [call EXCEPT
                   !.writes = @ + 1,
                   !.writeFailed = writeFails,
                   !.wroteAt = now,
                   !.entryBeforeWrite = cache[call.crop]]
       IN  /\ cache' = [cache EXCEPT ![call.crop] = r.entry]
           /\ Continue(k, IF r.out.threw THEN Throw ELSE Return(call.url),
                       call.stage)
    /\ UNCHANGED <<now, pexelsConfigured, unsplashConfigured, prevCall,
                   calls, ticks>>
    /\ UNCHANGED detectionVars
    /\ UNCHANGED appVars

\* Time passes, also while a call awaits storage or the network
Tick(d) ==
    /\ ticks < MaxTicks
    /\ d <= MaxClock - now
    /\ now' = now + d
    /\ ticks' = ticks + 1
    /\ UNCHANGED <<cache, pexelsConfigured, unsplashConfigured, pc, call,
                   prevCall, calls>>
    /\ UNCHANGED detectionVars
    /\ UNCHANGED appVars

TickSteps == {1, ExpiryTime - 1}

\* What the first crop's key may hold at the start: nothing, an item
\* JSON.parse rejects, an entry aged exactly 7 days, an entry 1 ms younger
InitEntries ==
    {NoEntry, Unparseable,
     Entry("https://pexels/a", 0), Entry("https://pexels/a", 1)}

InitResolver ==
    /\ \E e \in InitEntries :
          cache = [c \in Crops |-> IF c = "Rice" THEN e
                                   ELSE Entry("https://pexels/b", 1)]
    /\ now = ExpiryTime
    /\ pexelsConfigured \in BOOLEAN
    /\ unsplashConfigured \in BOOLEAN
    /\ pc = "idle"
    /\ call = IdleCall
    /\ prevCall = IdleSummary
    /\ calls = 0
    /\ ticks = 0

NextResolver ==
    \/ \E c \in Crops : Call(c)
    \/ \E readFails \in BOOLEAN, removeFails \in BOOLEAN :
          CacheLookup(readFails, removeFails)
    \/ \E outcome \in PexelsOutcomes \cup UnsplashOutcomes : Fetch(outcome)
    \/ \E writeFails \in BOOLEAN : Store(writeFails)
    \/ \E d \in TickSteps : Tick(d)

---------------------------------------------------------------------------
(* Local detection cache: OfflineStorage *)

MaxCachedDetections == 50

DetectionIds == {"det-a", "det-b"}

Min(a, b) == IF a < b THEN a ELSE b

\* getCachedDetections: the stored list, or [] when nothing is stored or the
\* read (getItem, JSON.parse) throws
GetCachedDetections(stored, readFails) ==
    IF readFails THEN <<>> ELSE stored

\* cached.push(detection)
Push(cached, detection) == Append(cached, detection)

\* cached.unshift(detection)
Unshift(cached, detection) == <<detection>> \o cached

\* cached.slice(0, 50)
Trim(cached) == SubSeq(cached, 1, Min(Len(cached), MaxCachedDetections))

\* The list addCachedDetection hands to setItem
TrimmedList(stored, detection, readFails) ==
    Trim(Unshift(GetCachedDetections(stored, readFails), detection))

IdleAdd == [detection |-> [id |-> "", seq |-> 0], before |-> <<>>,
            readFails |-> FALSE, writeFails |-> FALSE, done |-> FALSE]

\* addCachedDetection(detection). writeFails: setItem rejects, which the
\* catch block logs.
AddCachedDetection(id, readFails, writeFails) ==
    /\ adds < MaxAdds
    /\ LET d == [id |-> id, seq |-> nextSeq]
       IN  /\ detections' = IF writeFails THEN detections
                            ELSE TrimmedList(detections, d, readFails)
           /\ lastAdd' = [detection |-> d, before |-> detections,
                          readFails |-> readFails, writeFails |-> writeFails,
                          done |-> TRUE]
    /\ nextSeq' = nextSeq + 1
    /\ adds' = adds + 1
    /\ UNCHANGED listed
    /\ UNCHANGED resolverVars
    /\ UNCHANGED appVars

\* getCachedDetections() called by a reader of the history
ListDetections(readFails) ==
    /\ listed' = GetCachedDetections(detections, readFails)
    /\ UNCHANGED <<detections, lastAdd, nextSeq, adds>>
    /\ UNCHANGED resolverVars
    /\ UNCHANGED appVars

\* A stored list of n detections, newest first
StoredList(n) == [i \in 1..n |-> [id |-> "det-a", seq |-> n - i + 1]]

InitLengths == {0, 1, MaxCachedDetections - 1, MaxCachedDetections}

InitDetections ==
    /\ \E n \in InitLengths :
          /\ detections = StoredList(n)
          /\ nextSeq = n + 1
    /\ lastAdd = IdleAdd
    /\ listed = <<>>
    /\ adds = 0

NextDetections ==
    \/ \E id \in DetectionIds, readFails \in BOOLEAN, writeFails \in BOOLEAN :
          AddCachedDetection(id, readFails, writeFails)
    \/ \E readFails \in BOOLEAN : ListDetections(readFails)

---------------------------------------------------------------------------
(* Interleaved addCachedDetection calls: utils/offlineStorage.ts.          *)
(* addCachedDetection awaits getCachedDetections and then setItem, so the  *)
(* scheduler may run another call between the two storage steps.           *)

Adders == {1, 2}

IdleAdder == [pc |-> "idle", detection |-> [id |-> "", seq |-> 0],
              cached |-> <<>>, readFailed |-> FALSE, writeFailed |-> FALSE]

\* addCachedDetection(detection) is called; it runs up to its first await
AddBegin(p, id) ==
    /\ adder[p].pc = "idle"
    /\ adder' = [adder EXCEPT ![p].pc = "read",
                              ![p].detection = [id |-> id, seq |-> nextSeq]]
    /\ nextSeq' = nextSeq + 1
    /\ UNCHANGED <<detections, lastAdd, listed, adds>>
    /\ UNCHANGED resolverVars
    /\ UNCHANGED <<screenVars, lastClear, otherVars>>

\* const cached = await this.getCachedDetections()
AddRead(p, readFails) ==
    /\ adder[p].pc = "read"
    /\ adder' = [adder EXCEPT ![p].pc = "write",
                              ![p].cached =
                                  GetCachedDetections(detections, readFails),
                              ![p].readFailed = readFails]
    /\ UNCHANGED detectionVars
    /\ UNCHANGED resolverVars
    /\ UNCHANGED <<screenVars, lastClear, otherVars>>

\* cached.unshift(detection); slice(0, 50); await AsyncStorage.setItem(...)
AddWrite(p, writeFails) ==
    /\ adder[p].pc = "write"
    /\ detections' = IF writeFails THEN detections
                     ELSE Trim(Unshift(adder[p].cached, adder[p].detection))
    /\ adder' = [adder EXCEPT ![p].pc = "done",
                              ![p].writeFailed = writeFails]
    /\ UNCHANGED <<lastAdd, listed, nextSeq, adds>>
    /\ UNCHANGED resolverVars
    /\ UNCHANGED <<screenVars, lastClear, otherVars>>

ConcurrentLengths == {0, 1, MaxCachedDetections - 3, MaxCachedDetections - 2}

InitAdders ==
    /\ \E n \in ConcurrentLengths :
          /\ detections = StoredList(n)
          /\ nextSeq = n + 1
    /\ lastAdd = IdleAdd
    /\ listed = <<>>
    /\ adds = 0
    /\ adder = [p \in Adders |-> IdleAdder]

NextAdders ==
    \/ \E p \in Adders, id \in DetectionIds : AddBegin(p, id)
    \/ \E p \in Adders, readFails \in BOOLEAN : AddRead(p, readFails)
    \/ \E p \in Adders, writeFails \in BOOLEAN : AddWrite(p, writeFails)

---------------------------------------------------------------------------
(* Backend URL of the three client fetchers.                               *)
(* analysis.tsx and weather.tsx read Constants.expoConfig.extra, then      *)
(* process.env, then a literal; history.tsx reads process.env only and     *)
(* throws at module load when it is falsy.                                 *)

DefaultBackendUrl == "http://127.0.0.1:8000"
DeployedBackendUrl == "https://api.example"

\* a || b || c on strings: undefined and '' are falsy
OrElse(a, b) == IF a # Unset /\ Truthy(a) THEN a ELSE b

\* app.config.js: extra.EXPO_PUBLIC_BACKEND_URL, from the environment of the
\* build (after dotenv has loaded frontend/.env)
AppConfigExtra(buildEnv) == OrElse(buildEnv, DefaultBackendUrl)

AnalysisBackendUrl(cfg) ==
    Return(OrElse(cfg.extra, OrElse(cfg.env, DefaultBackendUrl)))

WeatherBackendUrl(cfg) ==
    Return(OrElse(cfg.extra, OrElse(cfg.env, DefaultBackendUrl)))

HistoryBackendUrl(cfg) ==
    IF cfg.env # Unset /\ Truthy(cfg.env) THEN Return(cfg.env) ELSE Throw

\* The configurations a bundle can run with. extra is what app.config.js
\* computed, or undefined where Constants.expoConfig carries no extra;
\* env is process.env.EXPO_PUBLIC_BACKEND_URL as inlined in the bundle.
Configs ==
    { [extra |-> AppConfigExtra(Unset), env |-> Unset, platform |-> "android"],
      [extra |-> Unset, env |-> "", platform |-> "android"],
      [extra |-> AppConfigExtra(DeployedBackendUrl),
       env |-> DeployedBackendUrl, platform |-> "android"],
      [extra |-> AppConfigExtra(DeployedBackendUrl),
       env |-> DeployedBackendUrl, platform |-> "web"] }

\* EXPO_PUBLIC_BACKEND_URL is set nowhere: not in the environment of the
\* build, not in frontend/.env, not in the bundle
UrlSetNowhere(cfg) ==
    /\ cfg.env \in {Unset, ""}
    /\ cfg.extra \in {Unset, AppConfigExtra(Unset)}

---------------------------------------------------------------------------
(* Preferences: utils/offlineStorage.ts *)

Languages == {"en", "ta", "kn"}

BoolToString(b) == IF b THEN "true" ELSE "false"

GetLanguageTry(stored, readFails) ==
    IF readFails THEN Throw
    ELSE Return(IF Truthy(stored) THEN stored ELSE "en")

GetLanguageCatchRethrows(out) == out

GetLanguageCatch(out) == IF out.threw THEN Return("en") ELSE out

GetLanguage(stored, readFails) ==
    GetLanguageCatch(GetLanguageTry(stored, readFails))

\* setLanguage: a rejected setItem is logged by the catch block
SetLanguage(stored, language, writeFails) ==
    IF writeFails THEN stored ELSE language

GetOfflineModeTry(stored, readFails) ==
    IF readFails THEN Throw ELSE Return(stored = "true")

GetOfflineModeCatch(out) == IF out.threw THEN Return(FALSE) ELSE out

GetOfflineMode(stored, readFails) ==
    GetOfflineModeCatch(GetOfflineModeTry(stored, readFails))

SetOfflineMode(stored, enabled, writeFails) ==
    IF writeFails THEN stored ELSE BoolToString(enabled)

---------------------------------------------------------------------------
(* Backend detection service (server side of POST /api/detect-disease).    *)
(* Its code is not part of the client sources modelled here; it is         *)
(* modelled from its specified behaviour: a list the vision model omits    *)
(* is returned as an empty list.                                           *)

\* A list of a record: omitted, or present with its items
Missing == [present |-> FALSE, items |-> <<>>]
List(items) == [present |-> TRUE, items |-> items]

\* response.data: null, or the detection record with its three lists
NoData == [kind |-> "null"]
Detection(lists) == [kind |-> "record", lists |-> lists]

AdviceLists == {"treatment_steps", "fertilizer_suggestions", "prevention_tips"}

\* What the vision model answers: every list given, or one or all omitted
UpstreamResponses ==
    { Detection([l \in AdviceLists |->
                    IF l \in omitted THEN Missing ELSE List(<<"advice">>)]) :
        omitted \in {{}, {"treatment_steps"}, {"fertilizer_suggestions"},
                     {"prevention_tips"}, AdviceLists} }

NormalizeKeepsMissing(upstream) == upstream

NormalizeDetection(upstream) ==
    Detection([l \in AdviceLists |->
                  IF upstream.lists[l].present THEN upstream.lists[l]
                  ELSE List(<<>>)])

---------------------------------------------------------------------------
(* Analysis screen: app/analysis.tsx *)

DetectTimeout == 60000

Images == {"base64-a"}

NoParams == [image |-> Unset, cropType |-> Unset, language |-> Unset,
             offlineMode |-> Unset]

\* The outcomes of axios.post: a 2xx response with the backend's record or
\* with no body, or a rejection err with err.response.data.detail and
\* err.message
DetectionFailures ==
    { [kind |-> "timeout", detail |-> Unset,
       message |-> "timeout of 60000ms exceeded"],
      [kind |-> "network", detail |-> Unset, message |-> "Network Error"],
      [kind |-> "network", detail |-> Unset, message |-> ""],
      [kind |-> "http", detail |-> "Invalid image",
       message |-> "Request failed with status code 400"],
      [kind |-> "http", detail |-> Unset,
       message |-> "Request failed with status code 500"] }

DetectionResponses ==
    { [kind |-> "ok", data |-> NormalizeDetection(u), upstream |-> u] :
        u \in UpstreamResponses }
    \cup {[kind |-> "ok", data |-> NoData, upstream |-> NoData]}

DetectionOutcomes == DetectionFailures \cup DetectionResponses

NoDetectionOutcome == [kind |-> "none"]

AnalysisIdle ==
    [mounted |-> FALSE, params |-> NoParams, loading |-> TRUE,
     result |-> NoData, error |-> "", inflight |-> <<>>,
     last |-> NoDetectionOutcome]

\* The body and options of the axios.post call
DetectRequest(cfg, params) ==
    [base |-> AnalysisBackendUrl(cfg).value, path |-> "/api/detect-disease",
     image |-> params.image, crop_type |-> params.cropType,
     language |-> "en", timeout |-> DetectTimeout]

\* analyzeImage up to its await
AnalyzeImageStartKeepsLoading(a, cfg) ==
    [a EXCEPT !.error = "",
              !.inflight = Append(a.inflight, DetectRequest(cfg, a.params))]

AnalyzeImageStart(a, cfg) ==
    [a EXCEPT !.loading = TRUE, !.error = "",
              !.inflight = Append(a.inflight, DetectRequest(cfg, a.params))]

\* err.response?.data?.detail || err.message || 'Failed to analyze image'
AnalysisErrorText(err) ==
    OrElse(err.detail, OrElse(err.message, "Failed to analyze image"))

AnalyzeImageTry(a, outcome) ==
    IF outcome.kind = "ok"
    THEN IF outcome.data # NoData
         THEN [a EXCEPT !.result = outcome.data]
         ELSE [a EXCEPT !.error = "No data received"]
    ELSE [a EXCEPT !.error = AnalysisErrorText(outcome)]

AnalyzeImageFinallyMissing(a) == a

AnalyzeImageFinally(a) == [a EXCEPT !.loading = FALSE]

\* analyzeImage from the settling of its await to its end
AnalyzeImageSettle(a, outcome) ==
    AnalyzeImageFinally(
        [AnalyzeImageTry(a, outcome) EXCEPT !.inflight = Tail(a.inflight),
                                            !.last = outcome])

\* The component at mount: useState defaults, then the effect
AnalysisMounted(cfg, params) ==
    LET a == [AnalysisIdle EXCEPT !.mounted = TRUE, !.params = params]
    IN  IF params.image # Unset /\ Truthy(params.image)
           /\ params.cropType # Unset /\ Truthy(params.cropType)
        THEN AnalyzeImageStart(a, cfg)
        ELSE [a EXCEPT !.error = "Missing image or crop type",
                       !.loading = FALSE]

\* Reading .length of the three lists unconditionally
RenderResult(result) ==
    IF \E l \in AdviceLists : ~result.lists[l].present THEN Throw
    ELSE Return("result")

\* Which of the screen's four returns renders
AnalysisView(a) ==
    IF a.loading THEN "loading"
    ELSE IF a.error # "" THEN "error"
    ELSE IF a.result = NoData THEN "blank"
    ELSE IF RenderResult(a.result).threw THEN "crash"
    ELSE "result"

\* The in-flight detection request settles
AnalysisResponse(outcome) ==
    /\ analysis.mounted
    /\ analysis.inflight # <<>>
    /\ analysis' = AnalyzeImageSettle(analysis, outcome)
    /\ UNCHANGED <<prefs, advisory, config, route, home, weather, history>>
    /\ UNCHANGED <<resolverVars, detectionVars, adder, lastClear, otherVars>>

\* 'Try Again' in the error view: onPress={analyzeImage}
TapTryAgain ==
    /\ route = "analysis"
    /\ AnalysisView(analysis) = "error"
    /\ analysis' = AnalyzeImageStart(analysis, config)
    /\ UNCHANGED <<prefs, advisory, config, route, home, weather, history>>
    /\ UNCHANGED <<resolverVars, detectionVars, adder, lastClear, otherVars>>

\* 'Go Back' in the error view, the back arrow in the result view
AnalysisBack ==
    /\ route = "analysis"
    /\ AnalysisView(analysis) \in {"error", "result"}
    /\ route' = "home"
    /\ analysis' = AnalysisIdle
    /\ UNCHANGED <<prefs, advisory, config, home, weather, history>>
    /\ UNCHANGED <<resolverVars, detectionVars, adder, lastClear, otherVars>>

---------------------------------------------------------------------------
(* Weather screen: app/weather.tsx *)

PermissionStatuses == {"granted", "denied"}

WeatherReports == {"report-a", "report-b"}

Positions == {"12.9,77.6"}

\* Outcomes of Location.requestForegroundPermissionsAsync
PermissionOutcomes ==
    [kind : {"status"}, status : PermissionStatuses, message : {""}]
    \cup [kind : {"error"}, status : {"none"},
          message : {"Permission request failed"}]

\* Outcomes of Location.getCurrentPositionAsync
LocationOutcomes ==
    [kind : {"position"}, coords : Positions, message : {""}]
    \cup [kind : {"error"}, coords : {""},
          message : {"", "Location request timed out"}]

\* Outcomes of axios.get on /api/weather-advisory
WeatherOutcomes ==
    [kind : {"ok"}, data : WeatherReports, message : {""}]
    \cup [kind : {"error"}, data : {Null},
          message : {"", "Network Error",
                     "Request failed with status code 502"}]

NoRun == [permission |-> "none", locationRead |-> FALSE,
          requested |-> FALSE, outcome |-> "none"]

WeatherIdle ==
    [mounted |-> FALSE, loading |-> FALSE, error |-> "", weather |-> Null,
     alert |-> FALSE, pc |-> "idle", inflight |-> <<>>, run |-> NoRun]

WeatherRequest(cfg, coords) ==
    [base |-> WeatherBackendUrl(cfg).value, path |-> "/api/weather-advisory",
     coords |-> coords, crop_type |-> "general"]

\* requestLocationAndFetch up to its first await
RequestLocationStart(w) ==
    [w EXCEPT !.loading = TRUE, !.error = "", !.pc = "permission",
              !.run = NoRun]

\* catch (err) of requestLocationAndFetch
RequestLocationCatch(w, message) ==
    [w EXCEPT !.error = OrElse(message, "Failed to get location"),
              !.loading = FALSE, !.pc = "idle", !.run.outcome = "location_error"]

\* if (status !== 'granted') { Alert.alert; setError; setLoading(false); return }
PermissionDenied(w) ==
    [w EXCEPT !.alert = TRUE, !.error = "Location permission denied",
              !.loading = FALSE, !.pc = "idle", !.run.outcome = "denied"]

\* The permission request settles; when granted the position is asked for
PermissionSettled(w, outcome) ==
    LET asked == [w EXCEPT !.run.permission =
                     IF outcome.kind = "error" THEN "error" ELSE outcome.status]
    IN  IF outcome.kind = "error"
        THEN RequestLocationCatch(asked, outcome.message)
        ELSE IF outcome.status # "granted"
        THEN PermissionDenied(asked)
        ELSE [asked EXCEPT !.pc = "location", !.run.locationRead = TRUE]

\* The position request settles; with a position the advisory is requested
LocationSettled(w, cfg, outcome) ==
    IF outcome.kind = "error"
    THEN RequestLocationCatch(w, outcome.message)
    ELSE [w EXCEPT !.pc = "request", !.run.requested = TRUE,
                   !.inflight = Append(w.inflight,
                                       WeatherRequest(cfg, outcome.coords))]

FetchWeatherTry(w, outcome) ==
    IF outcome.kind = "ok"
    THEN [w EXCEPT !.weather = outcome.data, !.run.outcome = "success"]
    ELSE [w EXCEPT !.error = OrElse(outcome.message,
                                    "Failed to fetch weather data"),
                   !.run.outcome = "request_error"]

FetchWeatherFinallyMissing(w) == w

FetchWeatherFinally(w) == [w EXCEPT !.loading = FALSE]

\* fetchWeatherAdvisory from the settling of axios.get to its end
FetchWeatherSettled(w, outcome) ==
    FetchWeatherFinally(
        [FetchWeatherTry(w, outcome) EXCEPT !.inflight = Tail(w.inflight),
                                            !.pc = "idle"])

\* The component at mount: useState defaults, then the effect
WeatherMounted == RequestLocationStart([WeatherIdle EXCEPT !.mounted = TRUE])

\* Which branch of the body renders
WeatherView(w) ==
    IF w.loading THEN "loading"
    ELSE IF w.error # "" THEN "error"
    ELSE IF w.weather # Null THEN "weather"
    ELSE "empty"

WeatherPermissionSettles(outcome) ==
    /\ weather.pc = "permission"
    /\ weather' = PermissionSettled(weather, outcome)
    /\ UNCHANGED <<prefs, advisory, config, route, home, analysis, history>>
    /\ UNCHANGED <<resolverVars, detectionVars, adder, lastClear, otherVars>>

WeatherLocationSettles(outcome) ==
    /\ weather.pc = "location"
    /\ weather' = LocationSettled(weather, config, outcome)
    /\ UNCHANGED <<prefs, advisory, config, route, home, analysis, history>>
    /\ UNCHANGED <<resolverVars, detectionVars, adder, lastClear, otherVars>>

WeatherResponse(outcome) ==
    /\ weather.pc = "request"
    /\ weather' = FetchWeatherSettled(weather, outcome)
    /\ UNCHANGED <<prefs, advisory, config, route, home, analysis, history>>
    /\ UNCHANGED <<resolverVars, detectionVars, adder, lastClear, otherVars>>

\* OK on the 'Permission Denied' alert
WeatherDismissAlert ==
    /\ route = "weather"
    /\ weather.alert
    /\ weather' = [weather EXCEPT !.alert = FALSE]
    /\ UNCHANGED <<prefs, advisory, config, route, home, analysis, history>>
    /\ UNCHANGED <<resolverVars, detectionVars, adder, lastClear, otherVars>>

\* The refresh button of the header: disabled={loading}
WeatherTapRefresh ==
    /\ route = "weather"
    /\ ~weather.alert
    /\ ~weather.loading
    /\ weather' = RequestLocationStart(weather)
    /\ UNCHANGED <<prefs, advisory, config, route, home, analysis, history>>
    /\ UNCHANGED <<resolverVars, detectionVars, adder, lastClear, otherVars>>

\* 'Try Again' in the error view
WeatherTapRetry ==
    /\ route = "weather"
    /\ ~weather.alert
    /\ WeatherView(weather) = "error"
    /\ weather' = RequestLocationStart(weather)
    /\ UNCHANGED <<prefs, advisory, config, route, home, analysis, history>>
    /\ UNCHANGED <<resolverVars, detectionVars, adder, lastClear, otherVars>>

\* The back arrow, between two runs
WeatherBack ==
    /\ route = "weather"
    /\ ~weather.alert
    /\ weather.pc = "idle"
    /\ route' = "home"
    /\ weather' = WeatherIdle
    /\ UNCHANGED <<prefs, advisory, config, home, analysis, history>>
    /\ UNCHANGED <<resolverVars, detectionVars, adder, lastClear, otherVars>>

---------------------------------------------------------------------------
(* History screen: app/history.tsx *)

HistoryLists == {"none", "items"}

HistoryOutcomes ==
    [kind : {"ok"}, data : HistoryLists, message : {""}]
    \cup [kind : {"error"}, data : {"none"}, message : {"", "Network Error"}]

HistoryIdle ==
    [mounted |-> FALSE, failed |-> FALSE, loading |-> TRUE,
     refreshing |-> FALSE, error |-> "", history |-> "none",
     inflight |-> <<>>]

HistoryRequest(base) == [base |-> base, path |-> "/api/history?limit=50"]

\* Evaluation of the module (lines 17-21), then the component at mount:
\* useState defaults and the effect, fetchHistory up to its await
HistoryMounted(cfg) ==
    LET url == HistoryBackendUrl(cfg)
    IN  IF url.threw THEN [HistoryIdle EXCEPT !.failed = TRUE]
        ELSE [HistoryIdle EXCEPT !.mounted = TRUE,
                                 !.inflight = <<HistoryRequest(url.value)>>]

\* fetchHistory from the settling of axios.get to its end
FetchHistorySettled(h, outcome) ==
    [h EXCEPT !.history = IF outcome.kind = "ok" THEN outcome.data ELSE @,
              !.error = IF outcome.kind = "ok" THEN @
                        ELSE OrElse(outcome.message, "Failed to load history"),
              !.loading = FALSE,
              !.refreshing = FALSE,
              !.inflight = Tail(h.inflight)]

HistoryResponse(outcome) ==
    /\ history.mounted
    /\ history.inflight # <<>>
    /\ history' = FetchHistorySettled(history, outcome)
    /\ UNCHANGED <<prefs, advisory, config, route, home, analysis, weather>>
    /\ UNCHANGED <<resolverVars, detectionVars, adder, lastClear, otherVars>>

\* The back arrow, or leaving the route that failed to load
HistoryBack ==
    /\ route = "history"
    /\ history.inflight = <<>>
    /\ route' = "home"
    /\ history' = HistoryIdle
    /\ UNCHANGED <<prefs, advisory, config, home, analysis, weather>>
    /\ UNCHANGED <<resolverVars, detectionVars, adder, lastClear, otherVars>>

---------------------------------------------------------------------------
(* Home screen: app/index.tsx *)

NoRead == [performed |-> FALSE, stored |-> Null, readFails |-> FALSE,
           threw |-> FALSE]

IdlePick == [pc |-> "idle", useCamera |-> FALSE, crop |-> "",
             language |-> "en", offlineMode |-> FALSE,
             camera |-> "none", media |-> "none"]

\* The component at mount: useState defaults, and the effect has called
\* loadSettings, which awaits getLanguage
HomeMounted ==
    [language |-> "en", offlineMode |-> FALSE, selectedCrop |-> "",
     alert |-> "none", load |-> "getLanguage", savedLanguage |-> Null,
     langRead |-> NoRead, modeRead |-> NoRead, pick |-> IdlePick,
     picker |-> "none"]

\* The screen takes taps: it is on top, no alert and no system dialog is up
HomeTakesTaps ==
    /\ route = "home"
    /\ home.alert = "none"
    /\ home.pick.pc = "idle"

\* loadSettings: const savedLanguage = await OfflineStorage.getLanguage()
LoadGetLanguage(readFails) ==
    /\ home.load = "getLanguage"
    /\ LET out == GetLanguage(prefs.language, readFails)
       IN  home' = [home EXCEPT
                       !.langRead = [performed |-> TRUE,
                                     stored |-> prefs.language,
                                     readFails |-> readFails,
                                     threw |-> out.threw],
                       !.savedLanguage = out.value,
                       !.load = IF out.threw THEN "threw"
                                ELSE "getOfflineMode"]
    /\ UNCHANGED <<prefs, advisory, config, route, analysis, weather, history>>
    /\ UNCHANGED <<resolverVars, detectionVars, adder, lastClear, otherVars>>

\* loadSettings: await getOfflineMode(), then setLanguage and setOfflineMode
LoadGetOfflineMode(readFails) ==
    /\ home.load = "getOfflineMode"
    /\ LET out == GetOfflineMode(prefs.offlineMode, readFails)
           read == [home EXCEPT
                       !.modeRead = [performed |-> TRUE,
                                     stored |-> prefs.offlineMode,
                                     readFails |-> readFails,
                                     threw |-> out.threw]]
       IN  home' = IF out.threw THEN [read EXCEPT !.load = "threw"]
                   ELSE [read EXCEPT !.language = home.savedLanguage,
                                     !.offlineMode = out.value,
                                     !.load = "done"]
    /\ UNCHANGED <<prefs, advisory, config, route, analysis, weather, history>>
    /\ UNCHANGED <<resolverVars, detectionVars, adder, lastClear, otherVars>>

\* changeLanguage(newLanguage), from the language modal
ChangeLanguage(newLanguage, writeFails) ==
    /\ HomeTakesTaps
    /\ home' = [home EXCEPT !.language = newLanguage]
    /\ prefs' = [prefs EXCEPT
                    !.language = SetLanguage(@, newLanguage, writeFails)]
    /\ UNCHANGED <<advisory, config, route, analysis, weather, history>>
    /\ UNCHANGED <<resolverVars, detectionVars, adder, lastClear, otherVars>>

\* toggleOfflineMode
ToggleOfflineMode(writeFails) ==
    /\ HomeTakesTaps
    /\ LET newMode == ~home.offlineMode
       IN  /\ home' = [home EXCEPT !.offlineMode = newMode,
                                   !.alert = "offlineMode"]
           /\ prefs' = [prefs EXCEPT
                           !.offlineMode = SetOfflineMode(@, newMode, writeFails)]
    /\ UNCHANGED <<advisory, config, route, analysis, weather, history>>
    /\ UNCHANGED <<resolverVars, detectionVars, adder, lastClear, otherVars>>

\* A crop card: onPress={() => setSelectedCrop(crop.name)}
SelectCrop(c) ==
    /\ HomeTakesTaps
    /\ home' = [home EXCEPT !.selectedCrop = c]
    /\ UNCHANGED <<prefs, advisory, config, route, analysis, weather, history>>
    /\ UNCHANGED <<resolverVars, detectionVars, adder, lastClear, otherVars>>

HomeDismissAlert ==
    /\ route = "home"
    /\ home.alert # "none"
    /\ home' = [home EXCEPT !.alert = "none"]
    /\ UNCHANGED <<prefs, advisory, config, route, analysis, weather, history>>
    /\ UNCHANGED <<resolverVars, detectionVars, adder, lastClear, otherVars>>

PickerFor(useCamera) == IF useCamera THEN "camera" ELSE "gallery"

\* pickImage(useCamera) up to its first await. The two buttons are disabled
\* while no crop is selected. On the web requestPermissions asks nothing.
PickImage(useCamera) ==
    /\ HomeTakesTaps
    /\ home.selectedCrop # ""
    /\ LET tapped == [IdlePick EXCEPT !.useCamera = useCamera,
                                      !.crop = home.selectedCrop,
                                      !.language = home.language,
                                      !.offlineMode = home.offlineMode]
       IN  home' = IF config.platform = "web"
                   THEN [home EXCEPT !.pick = [tapped EXCEPT !.pc = "picker"],
                                     !.picker = PickerFor(useCamera)]
                   ELSE [home EXCEPT
                            !.pick = [tapped EXCEPT !.pc = "permissions"]]
    /\ UNCHANGED <<prefs, advisory, config, route, analysis, weather, history>>
    /\ UNCHANGED <<resolverVars, detectionVars, adder, lastClear, otherVars>>

PermissionsGrantedIfAny(cameraStatus, mediaStatus) ==
    cameraStatus = "granted" \/ mediaStatus = "granted"

\* cameraStatus !== 'granted' || mediaStatus !== 'granted' is the denial
PermissionsGranted(cameraStatus, mediaStatus) ==
    cameraStatus = "granted" /\ mediaStatus = "granted"

\* requestPermissions settles with the two statuses, and pickImage goes on
HomePermissionsSettle(cameraStatus, mediaStatus) ==
    /\ home.pick.pc = "permissions"
    /\ LET asked == [home.pick EXCEPT !.camera = cameraStatus,
                                      !.media = mediaStatus]
       IN  home' = IF PermissionsGranted(cameraStatus, mediaStatus)
                   THEN [home EXCEPT !.pick = [asked EXCEPT !.pc = "picker"],
                                     !.picker = PickerFor(asked.useCamera)]
                   ELSE [home EXCEPT !.pick = [asked EXCEPT !.pc = "idle"],
                                     !.alert = "permissionsNeeded"]
    /\ UNCHANGED <<prefs, advisory, config, route, analysis, weather, history>>
    /\ UNCHANGED <<resolverVars, detectionVars, adder, lastClear, otherVars>>

\* A permission request rejects: pickImage ends with an unhandled rejection
HomePermissionsFail ==
    /\ home.pick.pc = "permissions"
    /\ home' = [home EXCEPT !.pick = [home.pick EXCEPT !.pc = "idle",
                                                       !.camera = "error"]]
    /\ UNCHANGED <<prefs, advisory, config, route, analysis, weather, history>>
    /\ UNCHANGED <<resolverVars, detectionVars, adder, lastClear, otherVars>>

PickerOutcomes ==
    [kind : {"image"}, image : Images]
    \cup [kind : {"canceled", "no_base64", "error"}, image : {""}]

\* The navigation parameters of router.push('/analysis')
AnalysisParams(pick, image) ==
    [image |-> image, cropType |-> pick.crop, language |-> pick.language,
     offlineMode |-> BoolToString(pick.offlineMode)]

\* launchCameraAsync or launchImageLibraryAsync settles
PickerReturns(outcome) ==
    /\ home.pick.pc = "picker"
    /\ home' = [home EXCEPT
                   !.pick = [home.pick EXCEPT !.pc = "idle"],
                   !.picker = "none",
                   !.alert = IF outcome.kind = "error" THEN "errorOccurred"
                             ELSE @]
    /\ IF outcome.kind = "image"
       THEN /\ route' = "analysis"
            /\ analysis' = AnalysisMounted(config,
                               AnalysisParams(home.pick, outcome.image))
       ELSE UNCHANGED <<route, analysis>>
    /\ UNCHANGED <<prefs, advisory, config, weather, history>>
    /\ UNCHANGED <<resolverVars, detectionVars, adder, lastClear, otherVars>>

\* router.push('/weather')
OpenWeather ==
    /\ HomeTakesTaps
    /\ route' = "weather"
    /\ weather' = WeatherMounted
    /\ UNCHANGED <<prefs, advisory, config, home, analysis, history>>
    /\ UNCHANGED <<resolverVars, detectionVars, adder, lastClear, otherVars>>

\* router.push('/history')
OpenHistory ==
    /\ HomeTakesTaps
    /\ route' = "history"
    /\ history' = HistoryMounted(config)
    /\ UNCHANGED <<prefs, advisory, config, home, analysis, weather>>
    /\ UNCHANGED <<resolverVars, detectionVars, adder, lastClear, otherVars>>

\* 'New Analysis' in the result view: router.push('/') mounts a new Index
NewAnalysis ==
    /\ route = "analysis"
    /\ AnalysisView(analysis) = "result"
    /\ route' = "home"
    /\ home' = HomeMounted
    /\ analysis' = AnalysisIdle
    /\ UNCHANGED <<prefs, advisory, config, weather, history>>
    /\ UNCHANGED <<resolverVars, detectionVars, adder, lastClear, otherVars>>

NoAdvisories == [c \in Crops |-> Null]

\* The screens at start, with nothing stored
InitScreens ==
    /\ prefs = [language |-> Null, offlineMode |-> Null]
    /\ advisory = NoAdvisories
    /\ config \in Configs
    /\ route = "home"
    /\ home = HomeMounted
    /\ analysis = AnalysisIdle
    /\ weather = WeatherIdle
    /\ history = HistoryIdle

\* The home screen at start, over what earlier runs have stored
InitSettings ==
    /\ prefs \in [language : {Null, "ta"}, offlineMode : {Null, "true", "false"}]
    /\ advisory = NoAdvisories
    /\ config \in {c \in Configs : UrlSetNowhere(c)}
    /\ route = "home"
    /\ home = HomeMounted
    /\ analysis = AnalysisIdle
    /\ weather = WeatherIdle
    /\ history = HistoryIdle

\* Startup and the two settings of the home screen
NextSettings ==
    \/ \E readFails \in BOOLEAN : LoadGetLanguage(readFails)
    \/ \E readFails \in BOOLEAN : LoadGetOfflineMode(readFails)
    \/ \E l \in Languages, writeFails \in BOOLEAN : ChangeLanguage(l, writeFails)
    \/ \E writeFails \in BOOLEAN : ToggleOfflineMode(writeFails)
    \/ HomeDismissAlert

NextWeather ==
    \/ OpenWeather
    \/ \E outcome \in PermissionOutcomes : WeatherPermissionSettles(outcome)
    \/ \E outcome \in LocationOutcomes : WeatherLocationSettles(outcome)
    \/ \E outcome \in WeatherOutcomes : WeatherResponse(outcome)
    \/ WeatherDismissAlert
    \/ WeatherTapRefresh
    \/ WeatherTapRetry
    \/ WeatherBack

\* Picking an image and the three screens that fetch from the backend
NextScreens ==
    \/ \E l \in Languages : ChangeLanguage(l, FALSE)
    \/ \E c \in Crops : SelectCrop(c)
    \/ HomeDismissAlert
    \/ \E useCamera \in BOOLEAN : PickImage(useCamera)
    \/ \E cameraStatus \in PermissionStatuses, mediaStatus \in PermissionStatuses :
          HomePermissionsSettle(cameraStatus, mediaStatus)
    \/ HomePermissionsFail
    \/ \E outcome \in PickerOutcomes : PickerReturns(outcome)
    \/ \E outcome \in DetectionOutcomes : AnalysisResponse(outcome)
    \/ TapTryAgain
    \/ AnalysisBack
    \/ NewAnalysis
    \/ OpenHistory
    \/ \E outcome \in HistoryOutcomes : HistoryResponse(outcome)
    \/ HistoryBack
    \/ NextWeather

---------------------------------------------------------------------------
(* clearImageCache: frontend/utils/cropImages.ts.                          *)
(* A storage key is its prefix followed by the rest of its name, so that   *)
(* startsWith(CACHE_PREFIX) is computed on the key.                        *)

CACHE_PREFIX == "crop_image_"
StoragePrefix == "@crop_doctor:"

ImageKey(c) == <<CACHE_PREFIX, c>>
LanguageKey == <<StoragePrefix, "language">>
OfflineModeKey == <<StoragePrefix, "offline_mode">>
DetectionsKey == <<StoragePrefix, "cached_detections">>
AdvisoryKey(c) == <<StoragePrefix, "offline_advisory", c>>

\* AsyncStorage.getAllKeys(): the keys that hold an item
StoredKeys ==
    {ImageKey(c) : c \in {x \in Crops : cache[x] # NoEntry}}
    \cup {AdvisoryKey(c) : c \in {x \in Crops : advisory[x] # Null}}
    \cup (IF prefs.language # Null THEN {LanguageKey} ELSE {})
    \cup (IF prefs.offlineMode # Null THEN {OfflineModeKey} ELSE {})
    \cup (IF detections # <<>> THEN {DetectionsKey} ELSE {})

StartsWithAnything(key, prefix) == TRUE

StartsWith(key, prefix) == key[1] = prefix

\* keys.filter(key => key.startsWith(CACHE_PREFIX))
CacheKeys(keys) == {k \in keys : StartsWith(k, CACHE_PREFIX)}

NoClear == [performed |-> FALSE, listFails |-> FALSE, removeFails |-> FALSE,
            calls |-> 0]

\* clearImageCache(), called while no getCropImage call is in flight.
\* listFails: getAllKeys rejects. removeFails: multiRemove rejects, having
\* removed the keys not in left. The catch block logs either.
ClearImageCache(listFails, removeFails, left) ==
    /\ pc \in {"idle", "done"}
    /\ LET cacheKeys == CacheKeys(StoredKeys)
           removed == IF listFails THEN {}
                      ELSE IF removeFails THEN cacheKeys \ left
                      ELSE cacheKeys
       IN  /\ cache' = [c \in Crops |->
                           IF ImageKey(c) \in removed THEN NoEntry ELSE cache[c]]
           /\ advisory' = [c \in Crops |->
                              IF AdvisoryKey(c) \in removed THEN Null
                              ELSE advisory[c]]
           /\ prefs' = [language |-> IF LanguageKey \in removed THEN Null
                                     ELSE prefs.language,
                        offlineMode |-> IF OfflineModeKey \in removed THEN Null
                                        ELSE prefs.offlineMode]
           /\ detections' = IF DetectionsKey \in removed THEN <<>>
                            ELSE detections
    /\ lastClear' = [performed |-> TRUE, listFails |-> listFails,
                     removeFails |-> removeFails, calls |-> calls]
    /\ UNCHANGED <<now, pexelsConfigured, unsplashConfigured, pc, call,
                   prevCall, calls, ticks>>
    /\ UNCHANGED <<lastAdd, listed, nextSeq, adds, adder>>
    /\ UNCHANGED <<config, route, home, analysis, weather, history>>
    /\ UNCHANGED otherVars

\* What a failed multiRemove may leave behind: some or all of the keys
LeftBehind == {{ImageKey(c) : c \in cs} : cs \in SUBSET Crops} \ {{}}

\* No screen calls getCropImage or clearImageCache: the utilities of
\* cropImages.ts are exercised with no screen mounted
Unmounted == [mounted |-> FALSE]

\* Every key of the application holds an item, and both images are fresh
InitClear ==
    /\ cache = [c \in Crops |-> Entry("https://pexels/a", 1)]
    /\ now = ExpiryTime
    /\ pexelsConfigured \in BOOLEAN
    /\ unsplashConfigured \in BOOLEAN
    /\ pc = "idle"
    /\ call = IdleCall
    /\ prevCall = IdleSummary
    /\ calls = 0
    /\ ticks = 0
    /\ detections = StoredList(1)
    /\ nextSeq = 2
    /\ lastAdd = IdleAdd
    /\ listed = <<>>
    /\ adds = 0
    /\ adder = [p \in Adders |-> IdleAdder]
    /\ prefs = [language |-> "ta", offlineMode |-> "true"]
    /\ advisory = [c \in Crops |-> "advisory"]
    /\ config = [extra |-> AppConfigExtra(Unset), env |-> Unset,
                 platform |-> "android"]
    /\ route = "none"
    /\ home = Unmounted
    /\ analysis = Unmounted
    /\ weather = Unmounted
    /\ history = Unmounted
    /\ lastClear = NoClear
    /\ OthersIdle

NextClear ==
    \/ \E c \in Crops : Call(c)
    \/ \E readFails \in BOOLEAN, removeFails \in BOOLEAN :
          CacheLookup(readFails, removeFails)
    \/ \E outcome \in PexelsOutcomes \cup UnsplashOutcomes : Fetch(outcome)
    \/ \E writeFails \in BOOLEAN : Store(writeFails)
    \/ ClearImageCache(FALSE, FALSE, {})
    \/ ClearImageCache(TRUE, FALSE, {})
    \/ \E left \in LeftBehind : ClearImageCache(FALSE, TRUE, left)

SpecClear == InitClear /\ [][NextClear]_vars

---------------------------------------------------------------------------
(* The analysis screen on its own: the route /analysis can be opened with  *)
(* any parameters (router.push from another screen, a deep link), so the   *)
(* image and the crop type may be absent or empty.                         *)

RouteParams ==
    [image : {Unset, ""} \cup Images, cropType : {Unset, "", "Rice"},
     language : {"en"}, offlineMode : {"false"}]

\* Navigation to /analysis: Analysis mounts with useLocalSearchParams()
OpenAnalysis(params) ==
    /\ route = "home"
    /\ route' = "analysis"
    /\ analysis' = AnalysisMounted(config, params)
    /\ UNCHANGED <<prefs, advisory, config, home, weather, history>>
    /\ UNCHANGED <<resolverVars, detectionVars, adder, lastClear, otherVars>>

NextAnalysis ==
    \/ \E params \in RouteParams : OpenAnalysis(params)
    \/ \E outcome \in DetectionOutcomes : AnalysisResponse(outcome)
    \/ TapTryAgain
    \/ AnalysisBack
    \/ NewAnalysis

---------------------------------------------------------------------------
(* OfflineStorage: offline advisories and clearAll (utils/offlineStorage.ts) *)

Advisories == {"advisory-a"}

\* getOfflineAdvisory(cropType) on the item stored under the crop's key
GetOfflineAdvisory(item, readFails) ==
    IF readFails THEN Return(Null)
    ELSE IF item = Null THEN Return(Null)
    ELSE Return(item)

\* setOfflineAdvisory(cropType, advisory); the catch block logs a failure
SetOfflineAdvisory(c, a, writeFails) ==
    /\ advisory' = IF writeFails THEN advisory ELSE [advisory EXCEPT ![c] = a]
    /\ UNCHANGED <<prefs, config, route, home, analysis, weather, history>>
    /\ UNCHANGED <<resolverVars, detectionVars, adder, lastClear, otherVars>>

\* The two keys clearAll hands to multiRemove
ClearAllKeys == {DetectionsKey, <<StoragePrefix, "offline_advisory">>}

\* clearAll(). removeFails: multiRemove rejects, having removed the keys not
\* in left; the catch block logs it.
ClearAll(removeFails, left) ==
    /\ LET removed == IF removeFails THEN (StoredKeys \cap ClearAllKeys) \ left
                      ELSE StoredKeys \cap ClearAllKeys
       IN  /\ cache' = [c \in Crops |->
                           IF ImageKey(c) \in removed THEN NoEntry ELSE cache[c]]
           /\ advisory' = [c \in Crops |->
                              IF AdvisoryKey(c) \in removed THEN Null
                              ELSE advisory[c]]
           /\ prefs' = [language |-> IF LanguageKey \in removed THEN Null
                                     ELSE prefs.language,
                        offlineMode |-> IF OfflineModeKey \in removed THEN Null
                                        ELSE prefs.offlineMode]
           /\ detections' = IF DetectionsKey \in removed THEN <<>>
                            ELSE detections
    /\ lastClearAll' = [performed |-> TRUE, removeFails |-> removeFails,
                        turn |-> 1 - lastClearAll.turn]
    /\ UNCHANGED <<now, pexelsConfigured, unsplashConfigured, pc, call,
                   prevCall, calls, ticks>>
    /\ UNCHANGED <<lastAdd, listed, nextSeq, adds, adder>>
    /\ UNCHANGED <<config, route, home, analysis, weather, history>>
    /\ UNCHANGED <<lastClear, preload, colours>>

NextStorage ==
    \/ \E c \in Crops, a \in Advisories, writeFails \in BOOLEAN :
          SetOfflineAdvisory(c, a, writeFails)
    \/ ClearAll(FALSE, {})
    \/ \E left \in (SUBSET ClearAllKeys) \ {{}} : ClearAll(TRUE, left)
    \/ \E readFails \in BOOLEAN : ListDetections(readFails)

---------------------------------------------------------------------------
(* Confidence colour: app/analysis.tsx and app/history.tsx.                *)
(* A confidence_score is a number, counted here in hundredths, or a value  *)
(* that is no number (undefined, NaN), for which every comparison is false.*)

Scores ==
    [number : {TRUE}, value : -5..105] \cup [number : {FALSE}, value : {0}]

\* score > bound in JavaScript, the bound in hundredths
Above(score, bound) == score.number /\ score.value > bound

\* confidenceColor of the analysis screen
AnalysisConfidenceColor(score) ==
    IF Above(score, 70) THEN "#10b981"
    ELSE IF Above(score, 40) THEN "#f59e0b"
    ELSE "#ef4444"

\* renderHistoryItem with its first bound made inclusive
HistoryConfidenceColorInclusive(score) ==
    IF score.number /\ score.value >= 70 THEN "#10b981"
    ELSE IF Above(score, 40) THEN "#f59e0b"
    ELSE "#ef4444"

\* confidenceColor of renderHistoryItem
HistoryConfidenceColor(score) ==
    IF Above(score, 70) THEN "#10b981"
    ELSE IF Above(score, 40) THEN "#f59e0b"
    ELSE "#ef4444"

\* A detection with this score is rendered by both screens
RenderScore(score) ==
    /\ colours' = [shown |-> TRUE, score |-> score,
                   analysis |-> AnalysisConfidenceColor(score),
                   history |-> HistoryConfidenceColor(score)]
    /\ UNCHANGED <<resolverVars, detectionVars, adder, screenVars, lastClear,
                   lastClearAll, preload>>

NextColours == \E score \in Scores : RenderScore(score)

---------------------------------------------------------------------------
(* preloadCropImages: frontend/utils/cropImages.ts.                        *)
(* crops.map starts one getCropImage per crop, each running up to its      *)
(* first await; the calls then take their steps in any order. A call is a  *)
(* record that notes what storage and the providers answered to it.        *)

NoCropCall ==
    [pc |-> "none", stage |-> "cache", url |-> "", result |-> Unset,
     reads |-> <<>>, fetches |-> <<>>, writes |-> <<>>]

\* getCropImage(crop) up to its first await
CropCallStart == [NoCropCall EXCEPT !.pc = "lookup"]

\* The storage key of a call, all calls using the key of one crop
CropKeyShared(c) == "Rice"

\* `${CACHE_PREFIX}${cropName}`: the key a call for crop c reads and writes
CropKey(c) == c

\* The body of getCropImage after the step k.stage produced out
CropCallContinue(k, out) ==
    LET o == StageCatch(k.stage, out)
        next == NextStep(k.stage, o.value)
    IN  IF o.threw THEN [k EXCEPT !.pc = "threw"]
        ELSE IF next = "return" THEN [k EXCEPT !.pc = "done", !.result = o.value]
        ELSE IF next = "return_empty" THEN [k EXCEPT !.pc = "done", !.result = ""]
        ELSE [k EXCEPT !.pc = "lookup", !.stage = next]

\* getCachedImageUrl completes at time t for the call k on the store
CropCallLookup(k, c, store, t, readFails, removeFails) ==
    LET r == GetCachedImageUrl(store[CropKey(c)], t, readFails, removeFails)
        n == [k EXCEPT !.reads = Append(@, [readFails |-> readFails,
                                            removeFails |-> removeFails,
                                            at |-> t])]
    IN  [store |-> [store EXCEPT ![CropKey(c)] = r.entry],
         call |-> IF r.out.threw \/ Truthy(r.out.value) \/ k.stage = "cache"
                  THEN CropCallContinue(n, r.out)
                  ELSE IF ~KeyConfigured(k.stage)
                  THEN CropCallContinue(n, Return(""))
                  ELSE [n EXCEPT !.pc = "fetch"]]

\* The provider's answer arrives
CropCallFetch(k, outcome) ==
    LET r == ProviderImageUrl(outcome)
        n == [k EXCEPT !.fetches = Append(@, outcome)]
    IN  IF ~r.threw /\ Truthy(r.value)
        THEN [n EXCEPT !.pc = "store", !.url = r.value]
        ELSE CropCallContinue(n, r)

\* cacheImageUrl completes at time t and the provider function returns
CropCallStore(k, c, store, t, writeFails) ==
    LET r == CacheImageUrl(store[CropKey(c)], k.url, t, writeFails)
        n == [k EXCEPT !.writes = Append(@, [writeFails |-> writeFails,
                                             at |-> t])]
    IN  [store |-> [store EXCEPT ![CropKey(c)] = r.entry],
         call |-> CropCallContinue(n, IF r.out.threw THEN Throw
                                      ELSE Return(k.url))]

Settled(k) == k.pc \in {"done", "threw"}

\* Promise.allSettled(promises): every promise is fulfilled or rejected
AllSettled(crops, ks) == \A c \in crops : Settled(ks[c])

\* preloadCropImages(crops): crops.map(crop => getCropImage(crop))
PreloadCropImages(crops) ==
    /\ preload.pc = "idle"
    /\ preload' = [pc |-> "running", crops |-> crops, cacheAtStart |-> cache,
                   calls |-> [c \in Crops |-> IF c \in crops THEN CropCallStart
                                              ELSE NoCropCall]]
    /\ UNCHANGED <<resolverVars, detectionVars, adder, screenVars, lastClear,
                   lastClearAll, colours>>

\* removeFails is an outcome only where removeItem is called: on an entry
\* that was read and has expired
PreloadLookup(c, readFails, removeFails) ==
    /\ preload.pc = "running"
    /\ preload.calls[c].pc = "lookup"
    /\ removeFails =>
          /\ ~readFails
          /\ cache[CropKey(c)].kind = "entry"
          /\ ~IsCacheValid(cache[CropKey(c)].timestamp, now)
    /\ LET r == CropCallLookup(preload.calls[c], c, cache, now, readFails,
                                removeFails)
       IN  /\ cache' = r.store
           /\ preload' = [preload EXCEPT !.calls[c] = r.call]
    /\ UNCHANGED <<now, pexelsConfigured, unsplashConfigured, pc, call,
                   prevCall, calls, ticks>>
    /\ UNCHANGED <<detectionVars, adder, screenVars, lastClear, lastClearAll,
                   colours>>

PreloadFetch(c, outcome) ==
    /\ preload.pc = "running"
    /\ preload.calls[c].pc = "fetch"
    /\ outcome \in Outcomes(preload.calls[c].stage)
    /\ preload' = [preload EXCEPT !.calls[c] = CropCallFetch(@, outcome)]
    /\ UNCHANGED <<resolverVars, detectionVars, adder, screenVars, lastClear,
                   lastClearAll, colours>>

PreloadStore(c, writeFails) ==
    /\ preload.pc = "running"
    /\ preload.calls[c].pc = "store"
    /\ LET r == CropCallStore(preload.calls[c], c, cache, now, writeFails)
       IN  /\ cache' = r.store
           /\ preload' = [preload EXCEPT !.calls[c] = r.call]
    /\ UNCHANGED <<now, pexelsConfigured, unsplashConfigured, pc, call,
                   prevCall, calls, ticks>>
    /\ UNCHANGED <<detectionVars, adder, screenVars, lastClear, lastClearAll,
                   colours>>

\* await Promise.allSettled(promises) resumes and preloadCropImages returns
PreloadReturns ==
    /\ preload.pc = "running"
    /\ AllSettled(preload.crops, preload.calls)
    /\ preload' = [preload EXCEPT !.pc = "done"]
    /\ UNCHANGED <<resolverVars, detectionVars, adder, screenVars, lastClear,
                   lastClearAll, colours>>

\* One getCropImage(c) run alone on the store from the state k, storage,
\* the providers and the clock answering as they answered the call rec
RECURSIVE RunAlone(_, _, _, _)
RunAlone(k, c, store, rec) ==
    IF Settled(k) \/ k.pc = "none" THEN [store |-> store, call |-> k]
    ELSE IF k.pc = "lookup"
    THEN IF Len(k.reads) >= Len(rec.reads) THEN [store |-> store, call |-> k]
         ELSE LET a == rec.reads[Len(k.reads) + 1]
                  r == CropCallLookup(k, c, store, a.at, a.readFails,
                                      a.removeFails)
              IN  RunAlone(r.call, c, r.store, rec)
    ELSE IF k.pc = "fetch"
    THEN IF Len(k.fetches) >= Len(rec.fetches)
         THEN [store |-> store, call |-> k]
         ELSE RunAlone(CropCallFetch(k, rec.fetches[Len(k.fetches) + 1]),
                       c, store, rec)
    ELSE IF Len(k.writes) >= Len(rec.writes) THEN [store |-> store, call |-> k]
         ELSE LET a == rec.writes[Len(k.writes) + 1]
                  r == CropCallStore(k, c, store, a.at, a.writeFails)
              IN  RunAlone(r.call, c, r.store, rec)

\* The crops of order resolved one after another from the store, each call
\* completing before the next starts
RECURSIVE SeqResolve(_, _, _)
SeqResolve(store, order, recs) ==
    IF order = <<>> THEN [store |-> store, calls |-> [c \in Crops |-> NoCropCall]]
    ELSE LET c == Head(order)
             r == RunAlone(CropCallStart, c, store, recs[c])
             rest == SeqResolve(r.store, Tail(order), recs)
         IN  [store |-> rest.store,
              calls |-> [rest.calls EXCEPT ![c] = r.call]]

\* Every order in which the crops of S can be taken one after another
Orders(S) ==
    {o \in [1..Cardinality(S) -> S] :
        \A i, j \in 1..Cardinality(S) : i # j => o[i] # o[j]}

\* The answers of the providers during a preload: a photo or a rejected
\* request
PreloadOutcomes ==
    {o \in PexelsOutcomes \cup UnsplashOutcomes :
        o.kind \in {"ok", "network_error"}}

NextPreload ==
    \/ \E crops \in SUBSET Crops : PreloadCropImages(crops)
    \/ \E c \in Crops, readFails \in BOOLEAN, removeFails \in BOOLEAN :
          PreloadLookup(c, readFails, removeFails)
    \/ \E c \in Crops, outcome \in PreloadOutcomes : PreloadFetch(c, outcome)
    \/ \E c \in Crops, writeFails \in BOOLEAN : PreloadStore(c, writeFails)
    \/ PreloadReturns
    \/ Tick(1)

---------------------------------------------------------------------------
(* Specifications *)

\* The component a specification leaves out stays as constructed
ResolverIdle ==
    /\ cache = [c \in Crops |-> NoEntry]
    /\ now = ExpiryTime
    /\ pexelsConfigured = FALSE
    /\ unsplashConfigured = FALSE
    /\ pc = "idle"
    /\ call = IdleCall
    /\ prevCall = IdleSummary
    /\ calls = 0
    /\ ticks = 0

DetectionsIdle ==
    /\ detections = <<>>
    /\ lastAdd = IdleAdd
    /\ listed = <<>>
    /\ nextSeq = 1
    /\ adds = 0

\* The screens as constructed, with nothing stored and the URL set nowhere
ScreensIdle ==
    /\ prefs = [language |-> Null, offlineMode |-> Null]
    /\ advisory = NoAdvisories
    /\ config = [extra |-> AppConfigExtra(Unset), env |-> Unset,
                 platform |-> "android"]
    /\ route = "home"
    /\ home = HomeMounted
    /\ analysis = AnalysisIdle
    /\ weather = WeatherIdle
    /\ history = HistoryIdle

AppIdle ==
    /\ adder = [p \in Adders |-> IdleAdder]
    /\ ScreensIdle
    /\ lastClear = NoClear
    /\ OthersIdle

\* Nothing stored, the URL set nowhere, no screen mounted
ScreensUnmounted ==
    /\ prefs = [language |-> Null, offlineMode |-> Null]
    /\ advisory = NoAdvisories
    /\ config = [extra |-> AppConfigExtra(Unset), env |-> Unset,
                 platform |-> "android"]
    /\ route = "none"
    /\ home = Unmounted
    /\ analysis = Unmounted
    /\ weather = Unmounted
    /\ history = Unmounted

ResolverStart ==
    /\ InitResolver
    /\ DetectionsIdle
    /\ adder = [p \in Adders |-> IdleAdder]
    /\ ScreensUnmounted
    /\ lastClear = NoClear
    /\ OthersIdle

SpecResolver == ResolverStart /\ [][NextResolver]_vars

DetectionsStart == ResolverIdle /\ InitDetections /\ AppIdle

SpecDetections == DetectionsStart /\ [][NextDetections]_vars

AddersStart ==
    /\ ResolverIdle
    /\ InitAdders
    /\ ScreensIdle
    /\ lastClear = NoClear
    /\ OthersIdle

ScreensStart ==
    /\ ResolverIdle
    /\ DetectionsIdle
    /\ adder = [p \in Adders |-> IdleAdder]
    /\ lastClear = NoClear
    /\ OthersIdle
    /\ InitScreens

SpecScreens == ScreensStart /\ [][NextScreens]_vars

SettingsStart ==
    /\ ResolverIdle
    /\ DetectionsIdle
    /\ adder = [p \in Adders |-> IdleAdder]
    /\ lastClear = NoClear
    /\ OthersIdle
    /\ InitSettings

SpecSettings == SettingsStart /\ [][NextSettings]_vars

\* The weather screen alone. Every awaited promise settles: the permission
\* dialog is answered, the position request and the HTTP request end.
WeatherSettles ==
    /\ WF_vars(\E outcome \in PermissionOutcomes :
                  WeatherPermissionSettles(outcome))
    /\ WF_vars(\E outcome \in LocationOutcomes :
                  WeatherLocationSettles(outcome))
    /\ WF_vars(\E outcome \in WeatherOutcomes : WeatherResponse(outcome))

SpecWeather == ScreensStart /\ [][NextWeather]_vars /\ WeatherSettles

SpecAdders == AddersStart /\ [][NextAdders]_vars

SpecAnalysis == ScreensStart /\ [][NextAnalysis]_vars

\* The storage as earlier runs left it, no screen mounted
InitStorage ==
    /\ ResolverIdle
    /\ \E n \in {0, 1, 3} :
          /\ detections = StoredList(n)
          /\ nextSeq = n + 1
    /\ lastAdd = IdleAdd
    /\ listed = <<>>
    /\ adds = 0
    /\ adder = [p \in Adders |-> IdleAdder]
    /\ prefs \in [language : {Null, "ta"}, offlineMode : {Null, "true"}]
    /\ advisory \in [Crops -> {Null} \cup Advisories]
    /\ config = [extra |-> AppConfigExtra(Unset), env |-> Unset,
                 platform |-> "android"]
    /\ route = "none"
    /\ home = Unmounted
    /\ analysis = Unmounted
    /\ weather = Unmounted
    /\ history = Unmounted
    /\ lastClear = NoClear
    /\ OthersIdle

SpecStorage == InitStorage /\ [][NextStorage]_vars

\* The cache as earlier runs left it: nothing, or for the first crop an
\* entry 1 ms short of expiry. The keys are the placeholders of the source,
\* or PEXELS_KEY has been filled in. No screen mounted, no call running.
InitPreload ==
    /\ \E e \in {NoEntry, Entry("https://pexels/a", 1)} :
          cache = [c \in Crops |-> IF c = "Rice" THEN e ELSE NoEntry]
    /\ now = ExpiryTime
    /\ pexelsConfigured \in BOOLEAN
    /\ unsplashConfigured = FALSE
    /\ pc = "idle"
    /\ call = IdleCall
    /\ prevCall = IdleSummary
    /\ calls = 0
    /\ ticks = 0
    /\ DetectionsIdle
    /\ adder = [p \in Adders |-> IdleAdder]
    /\ ScreensUnmounted
    /\ lastClear = NoClear
    /\ lastClearAll = NoClearAll
    /\ preload = NoPreload
    /\ colours = NoColours

SpecPreload == InitPreload /\ [][NextPreload]_vars

ColoursStart ==
    /\ ResolverIdle
    /\ DetectionsIdle
    /\ adder = [p \in Adders |-> IdleAdder]
    /\ ScreensUnmounted
    /\ lastClear = NoClear
    /\ lastClearAll = NoClearAll
    /\ preload = NoPreload
    /\ colours = NoColours

SpecColours == ColoursStart /\ [][NextColours]_vars

Init ==
    /\ InitResolver
    /\ InitDetections
    /\ adder = [p \in Adders |-> IdleAdder]
    /\ lastClear = NoClear
    /\ OthersIdle
    /\ InitSettings

Next ==
    \/ NextResolver
    \/ NextClear
    \/ NextDetections
    \/ NextAdders
    \/ NextSettings
    \/ NextScreens

Spec == Init /\ [][Next]_vars

---------------------------------------------------------------------------
(* Claims about the local detection cache (SpecDetections) *)

\* Every entry recorded later stands at a smaller index
NewestFirst(list) ==
    \A i \in 1..Len(list) : \A j \in 1..Len(list) :
        i < j => list[i].seq > list[j].seq

\* s is a subsequence of t from index i of s and index j of t on
RECURSIVE SubseqFrom(_, _, _, _)
SubseqFrom(s, t, i, j) ==
    IF i > Len(s) THEN TRUE
    ELSE IF j > Len(t) THEN FALSE
    ELSE IF s[i] = t[j] THEN SubseqFrom(s, t, i + 1, j + 1)
    ELSE SubseqFrom(s, t, i, j + 1)

\* Every entry of s is in t, in the same order
StillStored(s, t) == SubseqFrom(s, t, 1, 1)

\* C1: after any sequence of addCachedDetection calls on a stored list of at
\* most 50 entries, the stored list and the list getCachedDetections returns
\* have at most 50 entries and are ordered newest-first.
C1_CapAndNewestFirst ==
    /\ Len(detections) <= MaxCachedDetections
    /\ NewestFirst(detections)
    /\ Len(listed) <= MaxCachedDetections
    /\ NewestFirst(listed)

\* C1's case: two detections recorded on a full list and the list read back
C1_Witness ==
    /\ adds >= 2
    /\ Len(listed) = MaxCachedDetections
    /\ listed[1].seq = MaxCachedDetections + 2
    /\ listed[2].seq = MaxCachedDetections + 1

\* C9 as claimed: addCachedDetection(d) on a stored list L leaves the stored
\* list equal to d followed by L, cut to its first 50 entries (d followed by
\* the first 49 entries of L when L has 50).
C9_PrependAndTrim ==
    lastAdd.done =>
        detections =
            SubSeq(<<lastAdd.detection>> \o lastAdd.before, 1,
                   Min(Len(lastAdd.before) + 1, MaxCachedDetections))

\* C10 as claimed: when a storage read or write fails during
\* addCachedDetection, every entry stored before the call is still stored,
\* in the same order, after it.
C10_FailureKeepsStoredEntries ==
    (lastAdd.done /\ (lastAdd.readFails \/ lastAdd.writeFails)) =>
        StillStored(lastAdd.before, detections)

---------------------------------------------------------------------------
(* Claims about the crop image resolver (SpecResolver) *)

Done == pc = "done"

Requested(provider) ==
    \E i \in 1..Len(call.requests) : call.requests[i] = provider

Entered(stage) == \E i \in 1..Len(call.stages) : call.stages[i] = stage

FromProvider(source) == source \in {"pexels", "unsplash"}

\* The step ran and returned a URL
Yielded(v) == v # Unset /\ Truthy(v)

\* What the first cache lookup of the call found under the crop's key
FoundEntry ==
    /\ call.firstLookup.performed
    /\ ~call.firstLookup.readFails
    /\ call.firstLookup.entry.kind = "entry"

FoundAge == call.firstLookup.time - call.firstLookup.entry.timestamp

\* C2: a call that finds an entry younger than 7 days returns its URL and
\* sends no request; a call that finds an older entry does not serve it and
\* goes on to the providers, asking the first configured one.
C2_FreshServedExpiredRefetched ==
    /\ (FoundEntry /\ FoundAge < ExpiryTime) =>
          /\ Done
          /\ call.result = call.firstLookup.entry.url
          /\ call.source = "cache"
          /\ call.requests = <<>>
    /\ (FoundEntry /\ FoundAge >= ExpiryTime) =>
          /\ call.source # "cache"
          /\ Entered("pexels")
          /\ Done => /\ pexelsConfigured => /\ call.requests # <<>>
                                            /\ call.requests[1] = "pexels"
                     /\ (~pexelsConfigured /\ unsplashConfigured) =>
                            call.requests = <<"unsplash">>

\* C2's case: an entry aged exactly 7 days was found and a provider asked
C2_Witness ==
    /\ Done
    /\ FoundEntry
    /\ FoundAge = ExpiryTime
    /\ call.source = "pexels"
    /\ call.requests = <<"pexels">>

\* C3: the steps run in the order cache, Pexels, Unsplash: a Pexels request
\* only after the cache lookup missed, an Unsplash request only after
\* Pexels yielded no URL, and no request after a step yielded a URL.
C3_OrderedShortCircuit ==
    /\ call.stages \in {<<>>, <<"cache">>, <<"cache", "pexels">>,
                        <<"cache", "pexels", "unsplash">>}
    /\ call.requests \in {<<>>, <<"pexels">>, <<"unsplash">>,
                          <<"pexels", "unsplash">>}
    /\ Requested("pexels") => call.cachedUrl = Null
    /\ Requested("unsplash") => (call.cachedUrl = Null /\ call.pexelsUrl = "")
    /\ Yielded(call.cachedUrl) =>
          (Done /\ call.result = call.cachedUrl /\ call.stages = <<"cache">>
                /\ call.requests = <<>>)
    /\ Yielded(call.pexelsUrl) =>
          (Done /\ call.result = call.pexelsUrl
                /\ call.stages = <<"cache", "pexels">>
                /\ ~Requested("unsplash"))
    /\ Yielded(call.unsplashUrl) => (Done /\ call.result = call.unsplashUrl)

\* C3's case: all three steps ran and both providers were asked in order
C3_Witness ==
    /\ Done
    /\ call.requests = <<"pexels", "unsplash">>
    /\ call.pexelsUrl = ""
    /\ call.source = "unsplash"

\* The call in flight can take its next step
CallStep ==
    \/ \E readFails \in BOOLEAN, removeFails \in BOOLEAN :
          CacheLookup(readFails, removeFails)
    \/ \E outcome \in PexelsOutcomes \cup UnsplashOutcomes : Fetch(outcome)
    \/ \E writeFails \in BOOLEAN : Store(writeFails)

\* C4: whatever storage and the providers do, getCropImage never throws,
\* never blocks on itself, and returns a provider's or cached URL or ''.
C4_NeverThrows ==
    /\ pc # "threw"
    /\ pc \in {"lookup", "fetch", "store"} => ENABLED CallStep
    /\ Done => call.result \in Urls \cup {""}

\* C4's case: unreadable storage, an unparseable entry and two failing
\* providers in one call
C4_Witness ==
    /\ Done
    /\ call.result = ""
    /\ call.cacheAtStart[call.crop] = Unparseable
    /\ call.firstLookup.readFails
    /\ call.pexels.kind = "network_error"
    /\ call.unsplash.kind = "bad_payload"

\* The call follows a call for the same crop that returned a provider's URL,
\* and less than 7 days passed since
FollowsProviderCall ==
    /\ FromProvider(prevCall.source)
    /\ call.crop = prevCall.crop
    /\ call.firstLookup.performed
    /\ call.firstLookup.time - prevCall.wroteAt < ExpiryTime

C6_ProviderUrlCached ==
    (Done /\ FromProvider(call.source)) =>
        cache[call.crop] = Entry(call.result, call.wroteAt)

\* C6 as amended: cacheImageUrl ran once before the return; the cache holds
\* that entry when the storage write succeeded, and the crop's entry is as
\* it was when the write failed.
C6_ProviderUrlCachedUnlessWriteFails ==
    (Done /\ FromProvider(call.source)) =>
        /\ call.writes = 1
        /\ call.wroteAt <= now
        /\ call.wroteAt >= call.firstLookup.time
        /\ ~call.writeFailed =>
              cache[call.crop] = Entry(call.result, call.wroteAt)
        /\ call.writeFailed => cache[call.crop] = call.entryBeforeWrite

\* C6's case: Unsplash's URL returned and stored over an older entry
C6_Witness ==
    /\ Done
    /\ call.source = "unsplash"
    /\ ~call.writeFailed
    /\ call.entryBeforeWrite.kind = "entry"
    /\ cache[call.crop] = Entry(call.result, call.wroteAt)
    /\ cache[call.crop] # call.entryBeforeWrite

\* C7: a failed Pexels request does not abort getCropImage: the Unsplash
\* step is entered, Unsplash's URL is the result when it succeeds, and no
\* provider failure reaches the caller as an exception.
C7_PexelsFailureIsolated ==
    /\ pc # "threw"
    /\ call.pexels.kind \in ProviderFailures =>
          /\ call.pexelsUrl = ""
          /\ Entered("unsplash")
          /\ (Done /\ call.unsplash.kind = "ok") =>
                (call.result = call.unsplash.url /\ call.source = "unsplash")
          /\ (Done /\ call.unsplash.kind \in ProviderFailures) =>
                call.result = ""

\* C7's case: Pexels answered with an HTTP error and Unsplash with a photo
C7_Witness ==
    /\ Done
    /\ call.pexels.kind = "http_error"
    /\ call.unsplash.kind = "ok"
    /\ call.result = call.unsplash.url

\* The first cache lookup found no entry it could serve
NoValidEntry ==
    /\ call.firstLookup.performed
    /\ ~(/\ call.firstLookup.entry.kind = "entry"
         /\ FoundAge < ExpiryTime)

\* C8: with both keys left at their placeholders and no valid entry for the
\* crop, getCropImage returns '', sends no request and stores nothing.
C8_UnconfiguredIsDisabled ==
    (~pexelsConfigured /\ ~unsplashConfigured /\ NoValidEntry) =>
        /\ call.requests = <<>>
        /\ call.writes = 0
        /\ \A c \in Crops : cache[c] \in {call.cacheAtStart[c], NoEntry}
        /\ \A c \in Crops \ {call.crop} : cache[c] = call.cacheAtStart[c]
        /\ pc # "threw"
        /\ Done => (call.result = "" /\ call.source = "none")

\* C8's case: all three steps ran with both providers unconfigured
C8_Witness ==
    /\ ~pexelsConfigured
    /\ ~unsplashConfigured
    /\ Done
    /\ NoValidEntry
    /\ call.stages = <<"cache", "pexels", "unsplash">>
    /\ call.result = ""

---------------------------------------------------------------------------
(* Interleaved calls *)

Stored(d) == \E i \in 1..Len(detections) : detections[i] = d

AllAddsDone == \A p \in Adders : adder[p].pc = "done"

NoStorageFailure ==
    \A p \in Adders : ~adder[p].readFailed /\ ~adder[p].writeFailed

\* C11: once two addCachedDetection calls on a list shorter than 49 have
\* both completed, however their read and write steps interleaved, both
\* detections are in the stored list. Stated for the calls whose storage
\* steps all succeeded, so that only the interleaving is at stake.
C11_BothPresentAfterInterleaving ==
    (AllAddsDone /\ NoStorageFailure)
        => \A p \in Adders : Stored(adder[p].detection)

---------------------------------------------------------------------------
(* No deduplication *)

CountId(list, id) == Cardinality({i \in 1..Len(list) : list[i].id = id})

\* The step is an addCachedDetection call with the detection of the call
\* before it, on a list that had room for both
SameDetectionAgain ==
    /\ adds' = adds + 1
    /\ lastAdd.done
    /\ lastAdd'.detection.id = lastAdd.detection.id
    /\ Len(lastAdd.before) + 2 <= MaxCachedDetections

\* C19: addCachedDetection called twice with the same detection leaves two
\* more entries of that detection in the stored list, whose length has
\* grown by 2.
C19_NoDeduplication ==
    [][SameDetectionAgain =>
          /\ Len(detections') = Len(lastAdd.before) + 2
          /\ CountId(detections', lastAdd.detection.id)
                 = CountId(lastAdd.before, lastAdd.detection.id) + 2]_vars

---------------------------------------------------------------------------
(* Analysis screen: failure and retry *)

\* The step settles the detection request in flight
DetectionSettles ==
    /\ analysis.mounted
    /\ analysis'.mounted
    /\ Len(analysis'.inflight) < Len(analysis.inflight)

\* The step sends a detection request
DetectionSent == Len(analysis'.inflight) > Len(analysis.inflight)

\* The step is a tap on 'Try Again'
TryAgainTapped ==
    /\ route = "analysis"
    /\ analysis.mounted
    /\ AnalysisView(analysis) = "error"
    /\ analysis' # analysis
    /\ analysis'.mounted

SentForParams(a) ==
    \A i \in 1..Len(a.inflight) :
        /\ a.inflight[i].image = a.params.image
        /\ a.inflight[i].crop_type = a.params.cropType
        /\ a.inflight[i].timeout = 60000

\* C12: a detection request that times out or fails in transport ends in
\* the error view with loading false and the result as it was; a request
\* is sent only at mount and by a tap on 'Try Again', never by the failure
\* itself; the tap sends exactly one request, with the image and the crop
\* type of the screen.
C12_FailureThenManualRetry ==
    [][/\ (DetectionSettles /\ analysis'.last.kind \in {"timeout", "network"})
            => /\ AnalysisView(analysis') = "error"
               /\ ~analysis'.loading
               /\ analysis'.error # ""
               /\ analysis'.result = analysis.result
               /\ analysis'.inflight = <<>>
       /\ DetectionSent => (~analysis.mounted \/ TryAgainTapped)
       /\ TryAgainTapped
            => /\ Len(analysis'.inflight) = Len(analysis.inflight) + 1
               /\ analysis'.params = analysis.params
       /\ SentForParams(analysis')]_vars

\* C12's case: after a timeout, 'Try Again' has sent the one new request
C12_Witness ==
    /\ route = "analysis"
    /\ analysis.last.kind = "timeout"
    /\ analysis.loading
    /\ Len(analysis.inflight) = 1

---------------------------------------------------------------------------
(* Advice lists of a detection record *)

AllListsPresent(record) == \A l \in AdviceLists : record.lists[l].present

\* C13: every detection record the client receives, and so every result
\* the analysis screen holds, has its three advice lists, even where the
\* vision model omitted one; rendering the result, which reads the length
\* of each list, never fails on a missing list.
C13_AdviceListsPresent ==
    /\ (analysis.last.kind = "ok" /\ analysis.last.data # NoData)
           => AllListsPresent(analysis.last.data)
    /\ analysis.result # NoData
           => /\ AllListsPresent(analysis.result)
              /\ ~RenderResult(analysis.result).threw
    /\ AnalysisView(analysis) # "crash"

\* C13's case: the vision model omitted the treatment steps and the result
\* view renders the record with an empty list in their place
C13_Witness ==
    /\ analysis.last.kind = "ok"
    /\ analysis.last.upstream # NoData
    /\ ~analysis.last.upstream.lists["treatment_steps"].present
    /\ analysis.result.lists["treatment_steps"] = List(<<>>)
    /\ AnalysisView(analysis) = "result"

---------------------------------------------------------------------------
(* Language of the detection request *)

\* C14: every detection request the analysis screen sends carries the image,
\* the crop type and the language of the navigation parameters that
\* pickImage passed, whatever the language selected on the home screen.
C14_RequestCarriesSelectedLanguage ==
    \A i \in 1..Len(analysis.inflight) :
        /\ analysis.inflight[i].image = analysis.params.image
        /\ analysis.inflight[i].crop_type = analysis.params.cropType
        /\ analysis.inflight[i].language = analysis.params.language

---------------------------------------------------------------------------
(* Denied permissions *)

\* The step ends requestPermissions with a status that is not 'granted'
PickDenied ==
    /\ home.pick.pc = "permissions"
    /\ home'.pick.pc # "permissions"
    /\ home'.pick.camera # "error"
    /\ (home'.pick.camera # "granted" \/ home'.pick.media # "granted")

\* The step ends the location permission request with a denial
LocationDenied ==
    /\ weather.pc = "permission"
    /\ weather'.run.permission = "denied"

\* C15: when a permission is denied the operation stops with an alert. On
\* the home screen pickImage ends without opening the camera or the gallery
\* and without navigating, and what the user had selected stays; a picker is
\* open, and the analysis screen is entered, only with both permissions
\* granted (or on the web, which asks for none). On the weather screen the
\* run ends with loading false, no position read and no weather request.
C15_DeniedPermissionAborts ==
    [][/\ PickDenied
            => /\ home'.alert = "permissionsNeeded"
               /\ home'.pick.pc = "idle"
               /\ home'.picker = "none"
               /\ route' = route
               /\ analysis' = analysis
               /\ prefs' = prefs
               /\ home'.selectedCrop = home.selectedCrop
               /\ home'.language = home.language
               /\ home'.offlineMode = home.offlineMode
       /\ home'.picker # "none"
            => \/ config.platform = "web"
               \/ (home'.pick.camera = "granted" /\ home'.pick.media = "granted")
       /\ (route # "analysis" /\ route' = "analysis") => home.picker # "none"
       /\ LocationDenied
            => /\ weather'.alert
               /\ ~weather'.loading
               /\ weather'.pc = "idle"
               /\ ~weather'.run.locationRead
               /\ ~weather'.run.requested
               /\ weather'.inflight = <<>>
               /\ weather'.weather = weather.weather
       /\ (weather'.run.locationRead \/ weather'.run.requested)
            => weather'.run.permission = "granted"]_vars

\* C15's case: the gallery permission was denied to pickImage, and later the
\* location permission to the weather screen
C15_Witness ==
    /\ home.pick.camera = "granted"
    /\ home.pick.media = "denied"
    /\ home.pick.pc = "idle"
    /\ route = "weather"
    /\ weather.run.outcome = "denied"
    /\ weather.alert

---------------------------------------------------------------------------
(* Backend URL left unset *)

AllTo(requests, base) ==
    \A i \in 1..Len(requests) : requests[i].base = base

\* C16: with EXPO_PUBLIC_BACKEND_URL set nowhere, each of the three
\* fetchers (detection, history, weather) addresses the local default
\* http://127.0.0.1:8000, and each of the three screens loads when opened.
C16_UnsetUrlFallsBackToDefault ==
    UrlSetNowhere(config)
        => /\ AllTo(analysis.inflight, DefaultBackendUrl)
           /\ AllTo(weather.inflight, DefaultBackendUrl)
           /\ AllTo(history.inflight, DefaultBackendUrl)
           /\ route = "analysis" => analysis.mounted
           /\ route = "weather" => weather.mounted
           /\ route = "history" => (history.mounted /\ ~history.failed)

---------------------------------------------------------------------------
(* Weather screen: every run ends *)

\* The step is a tap on 'Try Again' of the error view
WeatherRetryTapped ==
    /\ route = "weather"
    /\ route' = "weather"
    /\ WeatherView(weather) = "error"
    /\ weather' # weather
    /\ weather'.alert = weather.alert

---------------------------------------------------------------------------
(* Preferences read at startup *)

\* The step settles loadSettings' await of getLanguage / of getOfflineMode
LanguageRead == home.load = "getLanguage" /\ home'.load # "getLanguage"
OfflineModeRead == home.load = "getOfflineMode" /\ home'.load # "getOfflineMode"

\* C18: getLanguage returns 'en' and getOfflineMode returns false whenever
\* nothing is stored or the storage read fails, and neither throws, so
\* loadSettings runs to its end and sets a language that is a non-empty
\* string and an offline flag that is a boolean.
C18_SafeDefaults ==
    /\ [](home.load # "threw")
    /\ [][/\ LanguageRead
               => /\ home'.load = "getOfflineMode"
                  /\ ~home'.langRead.threw
                  /\ Truthy(home'.savedLanguage)
                  /\ (prefs.language = Null \/ home'.langRead.readFails)
                        => home'.savedLanguage = "en"
          /\ OfflineModeRead
               => /\ home'.load = "done"
                  /\ ~home'.modeRead.threw
                  /\ home'.language = home.savedLanguage
                  /\ Truthy(home'.language)
                  /\ home'.offlineMode \in BOOLEAN
                  /\ (prefs.offlineMode = Null \/ home'.modeRead.readFails)
                        => home'.offlineMode = FALSE]_vars

\* C18's case: 'ta' is stored but the read of the language failed, no
\* offline mode is stored, and loadSettings has set 'en' and false
C18_Witness ==
    /\ home.load = "done"
    /\ home.langRead.stored = "ta"
    /\ home.langRead.readFails
    /\ home.modeRead.stored = Null
    /\ home.language = "en"
    /\ home.offlineMode = FALSE

---------------------------------------------------------------------------
(* clearImageCache *)

\* The step is a clearImageCache call
ClearStep ==
    /\ lastClear'.performed
    /\ UNCHANGED <<pc, call, calls>>

ClearSucceeded ==
    lastClear.performed /\ ~lastClear.listFails /\ ~lastClear.removeFails

\* The getCropImage call that has completed is the first one started after
\* the last clearImageCache call
FirstCallAfterClear == Done /\ calls = lastClear.calls + 1

\* The call was not served from the cache and went on to the providers
FetchedAnew ==
    /\ call.source # "cache"
    /\ call.cachedUrl = Null
    /\ Entered("pexels")

OtherKeysUnchanged == UNCHANGED <<prefs, advisory, detections>>

---------------------------------------------------------------------------
(* Analysis screen: requests in flight (SpecAnalysis) *)

\* C21: a mounted analysis screen has at most one detection request in
\* flight, it shows the loading view exactly while that request is pending,
\* and a request is sent (at mount or by 'Try Again') only when none is
\* pending.
C21_OneRequestInFlight ==
    /\ [](analysis.mounted =>
             /\ Len(analysis.inflight) <= 1
             /\ analysis.loading <=> analysis.inflight # <<>>)
    /\ [][DetectionSent =>
             /\ analysis.inflight = <<>>
             /\ ~analysis.mounted \/ TryAgainTapped]_vars

\* C21's case: a request failed and 'Try Again' sent the one that is pending
C21_Witness ==
    /\ route = "analysis"
    /\ analysis.last.kind = "http"
    /\ analysis.loading
    /\ Len(analysis.inflight) = 1
    /\ analysis.error = ""

\* C22 as claimed: no detection request is sent without an image and a crop
\* type; with either absent the screen shows 'Missing image or crop type'
\* and nothing the user does on it sends one.
C22_NoRequestWithoutImageOrCrop ==
    /\ \A i \in 1..Len(analysis.inflight) :
          /\ Yielded(analysis.inflight[i].image)
          /\ Yielded(analysis.inflight[i].crop_type)
    /\ (analysis.mounted /\ ~Yielded(analysis.params.image))
          => analysis.inflight = <<>>

---------------------------------------------------------------------------
(* clearAll (SpecStorage) *)

\* The step is a clearAll call
ClearAllStep == lastClearAll'.turn # lastClearAll.turn

\* C23 as claimed: after a clearAll with no storage error
\* getCachedDetections returns the empty list and getOfflineAdvisory(c)
\* returns null for every crop that had an advisory stored, while the
\* stored language and offline mode are unchanged.
C23_ClearAllRemovesDetectionsAndAdvisories ==
    [][(ClearAllStep /\ ~lastClearAll'.removeFails)
          => /\ GetCachedDetections(detections', FALSE) = <<>>
             /\ \A c \in Crops :
                   advisory[c] # Null
                      => GetOfflineAdvisory(advisory'[c], FALSE).value = Null
             /\ prefs' = prefs]_vars

---------------------------------------------------------------------------
(* Expiry of a cached image (SpecResolver) *)

\* C24: an entry is valid exactly when now - timestamp is less than
\* 7 * 24 * 60 * 60 * 1000 ms: the lookup of a call serves the entry it read
\* exactly when its age is below that bound, so an entry aged exactly 7 days
\* is treated as absent and an entry 1 ms younger is served.
C24_StrictExpiryBound ==
    /\ \A c \in Crops :
          cache[c].kind = "entry"
             => (IsCacheValid(cache[c].timestamp, now)
                    <=> now - cache[c].timestamp < 7 * 24 * 60 * 60 * 1000)
    /\ FoundEntry
          => /\ FoundAge < 7 * 24 * 60 * 60 * 1000
                   => call.cachedUrl = call.firstLookup.entry.url
             /\ FoundAge >= 7 * 24 * 60 * 60 * 1000
                   => call.cachedUrl = Null
    /\ ~IsCacheValid(0, 7 * 24 * 60 * 60 * 1000)
    /\ IsCacheValid(1, 7 * 24 * 60 * 60 * 1000)

\* C24's case: the entry found was 1 ms short of 7 days old and was served
C24_Witness ==
    /\ Done
    /\ FoundEntry
    /\ FoundAge = 7 * 24 * 60 * 60 * 1000 - 1
    /\ call.source = "cache"
    /\ call.result = call.firstLookup.entry.url
    /\ call.requests = <<>>

---------------------------------------------------------------------------
(* Confidence colour (SpecColours) *)

\* C25: for every confidence score the analysis screen and the history
\* screen pick the same colour: green above 0.7, amber above 0.4 and at most
\* 0.7, red otherwise, so 0.7 is amber and 0.4 is red.
C25_SameColourPolicy ==
    colours.shown =>
        /\ colours.analysis = colours.history
        /\ colours.analysis = "#10b981"
              <=> (colours.score.number /\ colours.score.value > 70)
        /\ colours.analysis = "#f59e0b"
              <=> (colours.score.number /\ colours.score.value > 40
                                        /\ colours.score.value <= 70)
        /\ colours.analysis \in {"#10b981", "#f59e0b", "#ef4444"}

\* C25's case: a score of exactly 0.7 is amber on both screens
C25_Witness ==
    /\ colours.shown
    /\ colours.score = [number |-> TRUE, value |-> 70]
    /\ colours.analysis = "#f59e0b"
    /\ colours.history = "#f59e0b"

---------------------------------------------------------------------------
(* Settings changed while loadSettings runs (SpecSettings) *)

\* C26 as claimed: once loadSettings and every changeLanguage and
\* toggleOfflineMode call have completed, the language and the offline flag
\* of the home screen are the persisted ones, however the two reads of
\* loadSettings interleave with a change the user makes meanwhile.
C26_MemoryEqualsPersisted ==
    home.load = "done" =>
        /\ home.language = GetLanguage(prefs.language, FALSE).value
        /\ home.offlineMode = GetOfflineMode(prefs.offlineMode, FALSE).value

---------------------------------------------------------------------------
(* Life of a cached entry (SpecResolver) *)

\* The step is a cache lookup that ends the call with the cached URL
ServedFromCache == pc = "lookup" /\ pc' = "done" /\ call'.source = "cache"

\* C27: a cache hit leaves the entry as it is; an entry is written only by
\* cacheImageUrl after a provider returned a URL, with the time of the
\* write; an entry is served only while it is less than 7 days old, however
\* often it was read before.
C27_HitKeepsTimestamp ==
    [][/\ ServedFromCache
            => /\ cache' = cache
               /\ cache[call.crop].kind = "entry"
               /\ call'.result = cache[call.crop].url
               /\ now - cache[call.crop].timestamp < ExpiryTime
       /\ \A c \in Crops :
             cache'[c] # cache[c]
                => \/ cache'[c] = NoEntry
                   \/ /\ pc = "store"
                      /\ c = call.crop
                      /\ call.stage \in {"pexels", "unsplash"}
                      /\ cache'[c] = Entry(call.url, now)]_vars

\* C27's case: the entry was served twice and has the timestamp it had
C27_Witness ==
    /\ Done
    /\ calls = 2
    /\ call.source = "cache"
    /\ prevCall.source = "cache"
    /\ prevCall.crop = call.crop
    /\ cache[call.crop] = call.firstLookup.entry
    /\ cache[call.crop].timestamp = 1

---------------------------------------------------------------------------
(* A resolution that yields no URL (SpecResolver) *)

\* The crop's entry could be served now: it is an entry less than 7 days old
Usable(entry) ==
    /\ entry.kind = "entry"
    /\ Truthy(entry.url)
    /\ IsCacheValid(entry.timestamp, now)

\* C28 as claimed: when getCropImage returns '' the cache holds no usable
\* entry for the crop and the call wrote none, the entries of the other
\* crops are as they were at the start of the call, and an entry is only
\* ever written with a non-empty URL.
C28_EmptyResultLeavesNoEntry ==
    /\ (Done /\ call.result = "")
          => /\ ~Usable(cache[call.crop])
             /\ call.writes = 0
             /\ \A c \in Crops \ {call.crop} : cache[c] = call.cacheAtStart[c]
    /\ \A c \in Crops : cache[c].kind = "entry" => Truthy(cache[c].url)

\* C28 as amended: a call that returns '' wrote no entry; the crop's entry is
\* the one held at the start of the call or was removed as expired, and it
\* is still usable only when the call's reads of it failed; the other crops'
\* entries are unchanged and no entry has an empty URL.
C28_EmptyResultWritesNoEntry ==
    /\ (Done /\ call.result = "")
          => /\ call.writes = 0
             /\ cache[call.crop] \in {NoEntry, call.cacheAtStart[call.crop]}
             /\ Usable(cache[call.crop]) => call.firstLookup.readFails
             /\ \A c \in Crops \ {call.crop} : cache[c] = call.cacheAtStart[c]
    /\ \A c \in Crops : cache[c].kind = "entry" => cache[c].url # ""

\* C28's case: an expired entry was removed, both providers were asked and
\* failed, and the other crop's entry is in place
C28_Witness ==
    /\ Done
    /\ call.result = ""
    /\ call.requests = <<"pexels", "unsplash">>
    /\ call.cacheAtStart[call.crop].kind = "entry"
    /\ cache[call.crop] = NoEntry
    /\ \E c \in Crops \ {call.crop} : cache[c].kind = "entry"

---------------------------------------------------------------------------
(* getCachedImageUrl on an expired or unparseable entry (SpecResolver) *)

\* The step is the getCachedImageUrl call of getCropImage itself
FirstLookupStep == pc = "lookup" /\ call.stage = "cache" /\ call' # call

ExpiredEntry(entry) ==
    entry.kind = "entry" /\ ~IsCacheValid(entry.timestamp, now)

\* C30 as claimed: getCachedImageUrl on an expired entry removes the entry
\* and returns null, so that no entry exists for the crop after the call; on
\* an entry that cannot be parsed it returns null and does not throw.
C30_ExpiredEntryRemoved ==
    [][FirstLookupStep
          => /\ ExpiredEntry(cache[call.crop])
                   => /\ cache'[call.crop] = NoEntry
                      /\ call'.cachedUrl = Null
             /\ cache[call.crop] = Unparseable
                   => /\ call'.cachedUrl = Null
                      /\ pc' # "threw"]_vars

\* C30 as amended: on an expired entry getCachedImageUrl returns null in
\* every case; it removes the entry when getItem and removeItem succeed and
\* leaves it stored when one of them rejects. On an entry that cannot be
\* parsed it returns null, does not throw and leaves the item stored.
C30_ExpiredEntryRemovedIfStorageWorks ==
    [][FirstLookupStep
          => /\ ExpiredEntry(cache[call.crop])
                   => /\ call'.cachedUrl = Null
                      /\ pc' # "threw"
                      /\ cache'[call.crop] \in {NoEntry, cache[call.crop]}
                      /\ call'.firstLookup.readFails => cache' = cache
                      /\ GetCachedImageUrl(cache[call.crop], now, FALSE, FALSE)
                            = [out |-> Return(Null), entry |-> NoEntry]
                      /\ GetCachedImageUrl(cache[call.crop], now, FALSE, TRUE)
                            = [out |-> Return(Null), entry |-> cache[call.crop]]
             /\ cache[call.crop] = Unparseable
                   => /\ call'.cachedUrl = Null
                      /\ pc' # "threw"
                      /\ cache' = cache]_vars

\* C30's case: the lookup has just removed an entry aged 7 days or more
C30_Witness ==
    /\ pc = "lookup"
    /\ call.stage = "pexels"
    /\ FoundEntry
    /\ FoundAge >= ExpiryTime
    /\ call.cachedUrl = Null
    /\ cache[call.crop] = NoEntry


\* A step of the call for crop c: its record changes
CropCallStep(c) == preload.pc = "running" /\ preload'.calls[c] # preload.calls[c]

\* C29: preloadCropImages(crops) starts one getCropImage per crop and no
\* other; it never rejects, and it completes only after every call has
\* settled; a step of the call for one crop leaves the cache keys of the
\* other crops alone; and when it has completed, the cache and the
\* result of every call are those of resolving the crops one after another,
\* in any order, with the same answers of storage, providers and clock.
C29_PreloadEqualsSequential ==
    /\ [](/\ preload.pc \in {"idle", "running", "done"}
          /\ preload.pc # "idle" =>
                \A c \in Crops :
                    (preload.calls[c].pc # "none") <=> (c \in preload.crops)
          /\ preload.pc = "done" =>
                /\ AllSettled(preload.crops, preload.calls)
                /\ \A o \in Orders(preload.crops) :
                      LET r == SeqResolve(preload.cacheAtStart, o,
                                          preload.calls)
                      IN  r.store = cache /\ r.calls = preload.calls)
    /\ [][\A c \in Crops :
             CropCallStep(c) =>
                \A d \in Crops \ {c} : cache'[d] = cache[d]]_vars

\* Both crops are preloaded; the second one's call reads storage before the
\* first one's photo is stored, both photos are stored, and the preload
\* has completed
C29_Witness ==
    /\ preload.pc = "done"
    /\ preload.crops = Crops
    /\ \A c \in Crops :
          /\ preload.calls[c].pc = "done"
          /\ preload.calls[c].result \in Urls
          /\ Len(preload.calls[c].writes) = 1
          /\ cache[c].kind = "entry"
          /\ cache[c].url = preload.calls[c].result
    /\ preload.calls["Maize"].reads[1].at < preload.calls["Rice"].writes[1].at
    /\ preload.calls["Rice"].reads[1].at < preload.calls["Maize"].writes[1].at
===========================================================================
